---- MODULE Spec2Model ----
(***************************************************************************)
(* Instance registry of the service center: server/service/instance.go.    *)
(*                                                                         *)
(* The state is the transactional KV with leases (instance keys, lease     *)
(* keys, service keys), the RPC workers in flight, each with its position  *)
(* between two backend calls, the HeartbeatSet in flight with its          *)
(* heartbeat functions, and the response that the last step returned.      *)
(* A handler is cut into steps exactly at its backend calls: the code      *)
(* between two calls touches only request-local data.                      *)
(***************************************************************************)
EXTENDS Integers, Sequences, FiniteSets, TLC

(***************************************************************************)
(* Bounds of the model.                                                    *)
(***************************************************************************)
\* Register calls started in one behaviour (each grants at most one lease
\* and draws at most one generated instance id).
MaxRegs == 2
\* RPCs started in one behaviour.
MaxOps == 4
\* The highest revision the find cache gives out.
MaxRev == 3
\* The elements of a BatchFind.
MaxBatch == 2

(***************************************************************************)
(* 32-bit integers, as Go's int32: + and * wrap modulo 2^32.               *)
(***************************************************************************)
MaxInt32 == 2147483647
MinInt32 == -MaxInt32 - 1

AddInt32(a, b) ==
    IF a >= 0 /\ b >= 0
    THEN IF a > MaxInt32 - b
         THEN (a - MaxInt32 - 1) + (b - MaxInt32 - 1)
         ELSE a + b
    ELSE IF a < 0 /\ b < 0
         THEN IF a < MinInt32 - b
              THEN (a + MaxInt32 + 1) + (b + MaxInt32 + 1)
              ELSE a + b
         ELSE a + b

NegInt32(a) == IF a = MinInt32 THEN MinInt32 ELSE -a

RECURSIVE MulNat32(_, _)
MulNat32(a, b) ==
    IF b = 0 THEN 0
    ELSE LET h == MulNat32(a, b \div 2)
             d == AddInt32(h, h)
         IN  IF b % 2 = 1 THEN AddInt32(d, a) ELSE d

MulInt32(a, b) ==
    IF b >= 0 THEN MulNat32(a, b)
    ELSE IF b = MinInt32 THEN (IF a % 2 = 0 THEN 0 ELSE MinInt32)
    ELSE NegInt32(MulNat32(a, -b))

(***************************************************************************)
(* Data.                                                                   *)
(***************************************************************************)
Procs == {"p1", "p2"}

NoLease == -1

\* instance.HealthCheck == nil
NoHC == [mode |-> "", interval |-> 0, times |-> 0]

HC(m, i, t) == [mode |-> m, interval |-> i, times |-> t]

REGISTRY_DEFAULT_LEASE_RENEWALINTERVAL == 30
REGISTRY_DEFAULT_LEASE_RETRYTIMES == 3

\* The request of an RPC; an operation reads the fields it has.
Req(svc, iid, eps, host, hc, status, props, isSC) ==
    [svc |-> svc, iid |-> iid, eps |-> eps, host |-> host, hc |-> hc,
     status |-> status, props |-> props, isSC |-> isSC]

NoReq == Req("", "", <<>>, "", NoHC, "", "", FALSE)

\* pb.MicroServiceInstance, the value of an instance key.
Instance(svc, iid, eps, host, status, hc, props) ==
    [serviceId |-> svc, instanceId |-> iid, endpoints |-> eps,
     hostName |-> host, status |-> status, healthCheck |-> hc,
     properties |-> props]

GenerateInstanceKey(svc, iid) == <<"inst", svc, iid>>
GenerateInstanceLeaseKey(svc, iid) == <<"lease", svc, iid>>

\* fmt.Sprintf("%d", leaseID) and its inverse, strconv.ParseInt.
FormatLeaseID(l) == ToString(l)
ParseLeaseID(s) == CHOOSE l \in 0..MaxRegs : ToString(l) = s

\* A worker: the call it serves, its position in the handler, the request
\* as received, and the handler's locals. after is history: the call began
\* after an Unregister of its instance succeeded, with no Register of that
\* instance committed since.
IdleProc ==
    [op |-> "none", pc |-> "idle", in |-> NoReq, lease |-> NoLease,
     rec |-> <<>>, ttl |-> 0, reporter |-> "nil", after |-> FALSE]

\* A response: the worker and the call it answers, the return statement it
\* comes from, the request, the code of the response body, whether a
\* transport error goes with it, and the instance id in it. ttl is what
\* the lease renewal of a Heartbeat reported (it is logged, not sent).
Resp(p, op, at, in, code, err, iid) ==
    [p |-> p, op |-> op, at |-> at, req |-> in, code |-> code, err |-> err,
     instanceId |-> iid, after |-> FALSE, ttl |-> 0]

NoResp == Resp("", "none", "", NoReq, "", FALSE, "")

VARIABLES
    services,   \* the service keys present in the KV
    kv,         \* instance and lease keys: key -> [val, lease]
    leases,     \* live leases: id -> [ttl, remaining]
    nextLease,  \* leases granted so far (the KV issues fresh ids)
    uuid,       \* instance ids generated so far
    procs,      \* the RPC workers
    result,     \* the response the last step returned, if it returned one
    quota,      \* the quota plugin: reservations applied, open, closed, used
    gone,       \* history: the instances unregistered and not registered since
    started,    \* RPCs started
    regs,       \* Register calls started
    hb,         \* the HeartbeatSet in flight and its heartbeat tasks
    fault,      \* the failure the environment injects into backend calls
    cache,      \* the find cache: key -> the entry last built for it
    deps        \* the dependency rules: <<consumer id, provider key>>

vars == <<services, kv, leases, nextLease, uuid, procs, result, quota, gone,
          started, regs, hb, fault, cache, deps>>

kvVars == <<services, kv, leases, nextLease>>

findVars == <<cache, deps>>

\* What the RPCs on one instance leave alone.
otherVars == <<hb, fault, cache, deps>>

(***************************************************************************)
(* Failures of the calls a handler makes: the backend returns an error,    *)
(* the lease renewal times out, the record does not serialize, the quota   *)
(* plugin fails. The environment decides which one is on.                  *)
(***************************************************************************)
Faults == {"none", "backend", "timeout", "marshal", "quota"}

BackendFails == fault = "backend"

(***************************************************************************)
(* The KV with leases (backend.Registry()).                                *)
(***************************************************************************)
\* A put attaches the key to the lease, detaching it from any other.
KvPut(store, key, val, lease) ==
    [k \in DOMAIN store \cup {key} |->
        IF k = key THEN [val |-> val, lease |-> lease] ELSE store[k]]

\* The keys a lease owns go with it.
KvDropLeases(store, dead) ==
    [k \in {x \in DOMAIN store : store[x].lease \notin dead} |-> store[k]]

LeaseDrop(ls, dead) == [l \in DOMAIN ls \ dead |-> ls[l]]

LeaseAdd(ls, id, ttl) ==
    [l \in DOMAIN ls \cup {id} |->
        IF l = id THEN [ttl |-> ttl, remaining |-> ttl] ELSE ls[l]]

\* serviceUtil.GetLeaseId: the lease id printed in the lease key, -1 if absent.
GetLeaseId(svc, iid) ==
    IF GenerateInstanceLeaseKey(svc, iid) \in DOMAIN kv
    THEN ParseLeaseID(kv[GenerateInstanceLeaseKey(svc, iid)].val)
    ELSE NoLease

\* serviceUtil.InstanceExistById
InstanceExistById(svc, iid) == GenerateInstanceKey(svc, iid) \in DOMAIN kv

\* serviceUtil.GetInstance: the record of the instance key, or nothing.
GetInstance(svc, iid) ==
    IF InstanceExistById(svc, iid)
    THEN <<kv[GenerateInstanceKey(svc, iid)].val>>
    ELSE <<>>

\* serviceUtil.InstanceExist: the ids of the live instances of the service
\* with the request's endpoints and host name.
InstanceExist(in) ==
    {k[3] : k \in {x \in DOMAIN kv :
                    /\ x[1] = "inst"
                    /\ x[2] = in.svc
                    /\ kv[x].val.endpoints = in.eps
                    /\ kv[x].val.hostName = in.host}}

(***************************************************************************)
(* preProcessRegisterInstance: defaults and the health-check validation.   *)
(***************************************************************************)
Status0(s) == IF s = "" THEN "UP" ELSE s

\* Fault variant: the PLATFORM case keeps what the caller sent.
preProcessHealthCheckKeepsPlatform(hc) ==
    IF hc = NoHC
    THEN [err |-> "",
          hc |-> HC("HEARTBEAT", REGISTRY_DEFAULT_LEASE_RENEWALINTERVAL,
                    REGISTRY_DEFAULT_LEASE_RETRYTIMES)]
    ELSE IF hc.mode = "HEARTBEAT"
    THEN LET d == MulInt32(hc.interval, AddInt32(hc.times, 1))
         IN  IF d <= 0 \/ d >= MaxInt32
             THEN [err |-> "InvalidParams", hc |-> hc]
             ELSE [err |-> "", hc |-> hc]
    ELSE [err |-> "", hc |-> hc]

preProcessHealthCheck(hc) ==
    IF hc = NoHC
    THEN [err |-> "",
          hc |-> HC("HEARTBEAT", REGISTRY_DEFAULT_LEASE_RENEWALINTERVAL,
                    REGISTRY_DEFAULT_LEASE_RETRYTIMES)]
    ELSE IF hc.mode = "HEARTBEAT"
    THEN LET d == MulInt32(hc.interval, AddInt32(hc.times, 1))
         IN  IF d <= 0 \/ d >= MaxInt32
             THEN [err |-> "InvalidParams", hc |-> hc]
             ELSE [err |-> "", hc |-> hc]
    ELSE IF hc.mode = "PLATFORM"
    THEN [err |-> "",
          hc |-> HC(hc.mode, REGISTRY_DEFAULT_LEASE_RENEWALINTERVAL,
                    REGISTRY_DEFAULT_LEASE_RETRYTIMES)]
    ELSE [err |-> "", hc |-> hc]

\* ttl := int64(instance.HealthCheck.Interval * (instance.HealthCheck.Times + 1))
LeaseTTL(hc) == MulInt32(hc.interval, AddInt32(hc.times, 1))

(***************************************************************************)
(* Workers.                                                                *)
(***************************************************************************)
Idle(p) == procs[p].pc = "idle"

At(p, op, pc) == procs[p].op = op /\ procs[p].pc = pc

Pair(in) == <<in.svc, in.iid>>

\* The RPC returns: the response goes out and the worker is free again.
Return(p, resp) ==
    /\ procs' = [procs EXCEPT ![p] = IdleProc]
    /\ result' = [resp EXCEPT !.after = procs[p].after]

\* The RPC is answered by the first backend call of its handler.
ReturnAtOnce(p, resp) ==
    /\ UNCHANGED procs
    /\ result' = [resp EXCEPT !.after = Pair(resp.req) \in gone]

\* The handler of a new RPC goes on after its first backend call.
Enter(p, op, pc, in, lease, rec) ==
    /\ procs' = [procs EXCEPT ![p] =
                    [IdleProc EXCEPT !.op = op, !.pc = pc, !.in = in,
                                     !.lease = lease, !.rec = rec,
                                     !.after = Pair(in) \in gone]]
    /\ result' = NoResp

\* Fault variant: the reservation is never closed.
CloseQuotaNever(p) == quota

\* Line 142: the deferred reporter.Close.
CloseQuota(p) ==
    IF procs[p].reporter = "open"
    THEN [quota EXCEPT !.open = @ - 1, !.closed = @ + 1]
    ELSE quota

Begin == started < MaxOps /\ started' = started + 1

(***************************************************************************)
(* Register                                                                *)
(***************************************************************************)
\* Fault variant: Register without the endpoints pre-check.
RegisterWithoutPreCheck(p, in) ==
    /\ Idle(p)
    /\ Begin
    /\ regs < MaxRegs
    /\ regs' = regs + 1
    /\ Enter(p, "Register", "preProcess", in, NoLease, <<>>)
    /\ UNCHANGED <<otherVars, kvVars, uuid, quota, gone>>

\* Lines 89-120: the endpoints pre-check. A match answers the call at once.
Register(p, in) ==
    /\ Idle(p)
    /\ Begin
    /\ regs < MaxRegs
    /\ regs' = regs + 1
    /\ IF BackendFails
       THEN ReturnAtOnce(p, Resp(p, "Register", "InstanceExist", in,
                                 "Internal", TRUE, ""))
       ELSE IF InstanceExist(in) # {}
       THEN \E old \in InstanceExist(in) :
                ReturnAtOnce(p, Resp(p, "Register", "InstanceExist", in,
                                     "SUCCESS", FALSE, old))
       ELSE Enter(p, "Register", "preProcess", in, NoLease, <<>>)
    /\ UNCHANGED <<otherVars, kvVars, uuid, quota, gone>>

\* Lines 122-128 and 44-87: preProcessRegisterInstance.
RegisterPreProcess(p) ==
    /\ At(p, "Register", "preProcess")
    /\ LET in   == procs[p].in
           iid  == IF in.iid = "" THEN "u" \o ToString(uuid + 1) ELSE in.iid
           pre  == preProcessHealthCheck(in.hc)
           inst == Instance(in.svc, iid, in.eps, in.host, Status0(in.status),
                            pre.hc, in.props)
       IN  /\ uuid' = IF in.iid = "" THEN uuid + 1 ELSE uuid
           /\ IF pre.err # ""
              THEN Return(p, Resp(p, "Register", "preProcess", in,
                                  pre.err, FALSE, ""))
              ELSE IF in.svc \notin services \/ BackendFails
              THEN Return(p, Resp(p, "Register", "preProcess", in,
                                  "ServiceNotExists", FALSE, ""))
              ELSE /\ procs' = [procs EXCEPT ![p] = [procs[p] EXCEPT
                                   !.pc = "LeaseGrant", !.rec = <<inst>>,
                                   !.ttl = LeaseTTL(pre.hc)]]
                   /\ result' = NoResp
    /\ UNCHANGED <<otherVars, kvVars, quota, gone, started, regs>>

\* Lines 137-174: the quota is applied (not for the registry's own
\* instance), the record is serialized, then the lease is granted. The
\* reservation is closed when the handler returns (line 142).
RegisterLeaseGrant(p) ==
    /\ At(p, "Register", "LeaseGrant")
    /\ LET in == procs[p].in
           applied == IF in.isSC THEN quota
                      ELSE [quota EXCEPT !.applied = @ + 1, !.closed = @ + 1]
       IN  \E granted \in BOOLEAN :
             /\ in.isSC => granted
             /\ IF ~in.isSC /\ fault = "quota"
                THEN /\ quota' = applied
                     /\ Return(p, Resp(p, "Register", "Apply4Quotas", in,
                                       "Internal", TRUE, ""))
                     /\ UNCHANGED <<leases, nextLease>>
                ELSE IF ~granted
                THEN /\ quota' = applied
                     /\ Return(p, Resp(p, "Register", "Apply4Quotas", in,
                                       "NotEnoughQuota", FALSE, ""))
                     /\ UNCHANGED <<leases, nextLease>>
                ELSE IF fault = "marshal"
                THEN /\ quota' = applied
                     /\ Return(p, Resp(p, "Register", "Marshal", in,
                                       "Internal", TRUE, ""))
                     /\ UNCHANGED <<leases, nextLease>>
                ELSE IF BackendFails
                THEN /\ quota' = applied
                     /\ Return(p, Resp(p, "Register", "LeaseGrant", in,
                                       "Unavailable", TRUE, ""))
                     /\ UNCHANGED <<leases, nextLease>>
                ELSE /\ quota' = IF in.isSC THEN quota
                                 ELSE [quota EXCEPT !.applied = @ + 1,
                                                    !.open = @ + 1]
                     /\ nextLease' = nextLease + 1
                     /\ leases' = LeaseAdd(leases, nextLease + 1, procs[p].ttl)
                     /\ procs' = [procs EXCEPT ![p] = [procs[p] EXCEPT
                                     !.pc = "Txn", !.lease = nextLease + 1,
                                     !.reporter = IF in.isSC THEN "nil"
                                                  ELSE "open"]]
                     /\ result' = NoResp
    /\ UNCHANGED <<otherVars, services, kv, uuid, gone, started, regs>>

\* Fault variant: the transaction without the compare on the service key.
RegisterTxnWithoutCmp(p) ==
    /\ At(p, "Register", "Txn")
    /\ LET in    == procs[p].in
           inst  == procs[p].rec[1]
           lease == procs[p].lease
           svc   == inst.serviceId
           iid   == inst.instanceId
       IN  IF lease \notin DOMAIN leases
           THEN /\ Return(p, Resp(p, "Register", "Txn", in,
                                  "Unavailable", TRUE, ""))
                /\ quota' = CloseQuota(p)
                /\ UNCHANGED <<kv, gone>>
           ELSE /\ kv' = KvPut(KvPut(kv, GenerateInstanceKey(svc, iid),
                                     inst, lease),
                               GenerateInstanceLeaseKey(svc, iid),
                               FormatLeaseID(lease), lease)
                /\ quota' = IF procs[p].reporter = "open"
                            THEN [CloseQuota(p) EXCEPT !.used = @ + 1]
                            ELSE quota
                /\ gone' = gone \ {<<svc, iid>>}
                /\ procs' = [procs EXCEPT ![p] = IdleProc]
                /\ result' = Resp(p, "Register", "Txn", in,
                                   "SUCCESS", FALSE, iid)
    /\ UNCHANGED <<otherVars, services, leases, nextLease, uuid, started, regs>>

\* Lines 176-221: both keys are put under the lease in one transaction
\* that compares the service key's version with 0. The KV evaluates the
\* compare first and refuses a put under a lease that is gone.
RegisterTxn(p) ==
    /\ At(p, "Register", "Txn")
    /\ LET in    == procs[p].in
           inst  == procs[p].rec[1]
           lease == procs[p].lease
           svc   == inst.serviceId
           iid   == inst.instanceId
       IN  IF BackendFails
           THEN /\ Return(p, Resp(p, "Register", "Txn", in,
                                  "Unavailable", TRUE, ""))
                /\ quota' = CloseQuota(p)
                /\ UNCHANGED <<kv, gone>>
           ELSE IF svc \notin services
           THEN /\ Return(p, Resp(p, "Register", "Txn", in,
                                  "ServiceNotExists", FALSE, ""))
                /\ quota' = CloseQuota(p)
                /\ UNCHANGED <<kv, gone>>
           ELSE IF lease \notin DOMAIN leases
           THEN /\ Return(p, Resp(p, "Register", "Txn", in,
                                  "Unavailable", TRUE, ""))
                /\ quota' = CloseQuota(p)
                /\ UNCHANGED <<kv, gone>>
           ELSE /\ kv' = KvPut(KvPut(kv, GenerateInstanceKey(svc, iid),
                                     inst, lease),
                               GenerateInstanceLeaseKey(svc, iid),
                               FormatLeaseID(lease), lease)
                /\ quota' = IF procs[p].reporter = "open"
                            THEN [CloseQuota(p) EXCEPT !.used = @ + 1]
                            ELSE quota
                /\ gone' = gone \ {<<svc, iid>>}
                /\ procs' = [q \in Procs |->
                               IF q = p THEN IdleProc
                               ELSE IF Pair(procs[q].in) = <<svc, iid>>
                               THEN [procs[q] EXCEPT !.after = FALSE]
                               ELSE procs[q]]
                /\ result' = Resp(p, "Register", "Txn", in,
                                   "SUCCESS", FALSE, iid)
    /\ UNCHANGED <<otherVars, services, leases, nextLease, uuid, started, regs>>

(***************************************************************************)
(* Unregister                                                              *)
(***************************************************************************)
\* Lines 223-251.
Unregister(p, in) ==
    /\ Idle(p)
    /\ Begin
    /\ IF BackendFails
       THEN ReturnAtOnce(p, Resp(p, "Unregister", "InstanceExistById", in,
                                 "Internal", TRUE, ""))
       ELSE IF InstanceExistById(in.svc, in.iid)
       THEN Enter(p, "Unregister", "GetLeaseId", in, NoLease, <<>>)
       ELSE ReturnAtOnce(p, Resp(p, "Unregister", "InstanceExistById", in,
                                 "InstanceNotExists", FALSE, ""))
    /\ UNCHANGED <<otherVars, kvVars, uuid, quota, gone, regs>>

\* Lines 272-279: revokeInstance reads the lease id.
UnregisterGetLeaseId(p) ==
    /\ At(p, "Unregister", "GetLeaseId")
    /\ LET in == procs[p].in
           l  == GetLeaseId(in.svc, in.iid)
       IN  IF BackendFails
           THEN Return(p, Resp(p, "Unregister", "GetLeaseId", in,
                               "Unavailable", TRUE, ""))
           ELSE IF l = NoLease
           THEN Return(p, Resp(p, "Unregister", "GetLeaseId", in,
                               "InstanceNotExists", FALSE, ""))
           ELSE /\ procs' = [procs EXCEPT ![p] = [procs[p] EXCEPT
                                !.pc = "LeaseRevoke", !.lease = l]]
                /\ result' = NoResp
    /\ UNCHANGED <<otherVars, kvVars, uuid, quota, gone, started, regs>>

\* Lines 281-285 and 253-269: the lease is revoked; the KV deletes its keys.
UnregisterLeaseRevoke(p) ==
    /\ At(p, "Unregister", "LeaseRevoke")
    /\ LET in == procs[p].in
           l  == procs[p].lease
       IN  IF l \in DOMAIN leases /\ ~BackendFails
           THEN /\ leases' = LeaseDrop(leases, {l})
                /\ kv' = KvDropLeases(kv, {l})
                /\ gone' = gone \cup {Pair(in)}
                /\ Return(p, Resp(p, "Unregister", "LeaseRevoke", in,
                                  "SUCCESS", FALSE, ""))
           ELSE /\ Return(p, Resp(p, "Unregister", "LeaseRevoke", in,
                                  "Unavailable", TRUE, ""))
                /\ UNCHANGED <<kv, leases, gone>>
    /\ UNCHANGED <<otherVars, services, nextLease, uuid, quota, started, regs>>

(***************************************************************************)
(* Heartbeat                                                               *)
(***************************************************************************)
\* Lines 288-313, serviceUtil.HeartbeatUtil: the lease id is looked up.
Heartbeat(p, in) ==
    /\ Idle(p)
    /\ Begin
    /\ LET l == GetLeaseId(in.svc, in.iid)
       IN  IF BackendFails
           THEN ReturnAtOnce(p, Resp(p, "Heartbeat", "GetLeaseId", in,
                                     "Internal", TRUE, ""))
           ELSE IF l = NoLease
           THEN ReturnAtOnce(p, Resp(p, "Heartbeat", "GetLeaseId", in,
                                     "InstanceNotExists", FALSE, ""))
           ELSE Enter(p, "Heartbeat", "KeepAlive", in, l, <<>>)
    /\ UNCHANGED <<otherVars, kvVars, uuid, quota, gone, regs>>

\* Fault variant: a renewal that reports a TTL of 0 is answered as a
\* missing instance.
HeartbeatKeepAliveZeroIsMissing(p) ==
    /\ At(p, "Heartbeat", "KeepAlive")
    /\ LET in == procs[p].in
           l  == procs[p].lease
           ok == Resp(p, "Heartbeat", "KeepAlive", in, "SUCCESS", FALSE, "")
       IN  IF BackendFails
           THEN /\ Return(p, Resp(p, "Heartbeat", "KeepAlive", in,
                                  "Internal", TRUE, ""))
                /\ UNCHANGED leases
           ELSE IF l \in DOMAIN leases /\ fault # "timeout"
           THEN /\ leases' = [leases EXCEPT ![l].remaining = leases[l].ttl]
                /\ Return(p, [ok EXCEPT !.ttl = leases[l].ttl])
           ELSE /\ Return(p, Resp(p, "Heartbeat", "KeepAlive", in,
                                  "InstanceNotExists", FALSE, ""))
                /\ UNCHANGED leases
    /\ UNCHANGED <<otherVars, services, kv, nextLease, uuid, quota, gone,
                   started, regs>>

\* Lines 301-324: the lease is renewed. A renewal that times out reports
\* a TTL of 0 and renews nothing; the handler logs it and answers SUCCESS.
HeartbeatKeepAlive(p) ==
    /\ At(p, "Heartbeat", "KeepAlive")
    /\ LET in == procs[p].in
           l  == procs[p].lease
           ok == Resp(p, "Heartbeat", "KeepAlive", in, "SUCCESS", FALSE, "")
       IN  IF BackendFails
           THEN /\ Return(p, Resp(p, "Heartbeat", "KeepAlive", in,
                                  "Internal", TRUE, ""))
                /\ UNCHANGED leases
           ELSE IF l \in DOMAIN leases /\ fault = "timeout"
           THEN /\ Return(p, [ok EXCEPT !.ttl = 0])
                /\ UNCHANGED leases
           ELSE IF l \in DOMAIN leases
           THEN /\ leases' = [leases EXCEPT ![l].remaining = leases[l].ttl]
                /\ Return(p, [ok EXCEPT !.ttl = leases[l].ttl])
           ELSE /\ Return(p, Resp(p, "Heartbeat", "KeepAlive", in,
                                  "InstanceNotExists", FALSE, ""))
                /\ UNCHANGED leases
    /\ UNCHANGED <<otherVars, services, kv, nextLease, uuid, quota, gone,
                   started, regs>>

(***************************************************************************)
(* UpdateStatus, UpdateInstanceProperties                                  *)
(***************************************************************************)
\* Lines 672-697: the record is read and the copy gets the new status.
UpdateStatus(p, in) ==
    /\ Idle(p)
    /\ Begin
    /\ LET got == GetInstance(in.svc, in.iid)
       IN  IF BackendFails
           THEN ReturnAtOnce(p, Resp(p, "UpdateStatus", "GetInstance", in,
                                     "Internal", TRUE, ""))
           ELSE IF got = <<>>
           THEN ReturnAtOnce(p, Resp(p, "UpdateStatus", "GetInstance", in,
                                     "InstanceNotExists", FALSE, ""))
           ELSE Enter(p, "UpdateStatus", "GetLeaseId", in, NoLease,
                      <<[got[1] EXCEPT !.status = in.status]>>)
    /\ UNCHANGED <<otherVars, kvVars, uuid, quota, gone, regs>>

\* Lines 716-741: the record is read and the copy gets the new properties.
UpdateInstanceProperties(p, in) ==
    /\ Idle(p)
    /\ Begin
    /\ LET got == GetInstance(in.svc, in.iid)
       IN  IF BackendFails
           THEN ReturnAtOnce(p, Resp(p, "UpdateInstanceProperties",
                                     "GetInstance", in,
                                     "Internal", TRUE, ""))
           ELSE IF got = <<>>
           THEN ReturnAtOnce(p, Resp(p, "UpdateInstanceProperties",
                                     "GetInstance", in,
                                     "InstanceNotExists", FALSE, ""))
           ELSE Enter(p, "UpdateInstanceProperties", "GetLeaseId", in, NoLease,
                      <<[got[1] EXCEPT !.properties = in.props]>>)
    /\ UNCHANGED <<otherVars, kvVars, uuid, quota, gone, regs>>

\* serviceUtil.UpdateInstance (lines 699, 743): the lease id of the
\* instance is read ...
UpdateInstanceGetLeaseId(p) ==
    /\ procs[p].op \in {"UpdateStatus", "UpdateInstanceProperties"}
    /\ procs[p].pc = "GetLeaseId"
    /\ LET in == procs[p].in
           l  == GetLeaseId(in.svc, in.iid)
       IN  IF BackendFails
           THEN Return(p, Resp(p, procs[p].op, "GetLeaseId", in,
                               "Internal", TRUE, ""))
           ELSE IF l = NoLease
           THEN Return(p, Resp(p, procs[p].op, "GetLeaseId", in,
                               "InstanceNotExists", FALSE, ""))
           ELSE /\ procs' = [procs EXCEPT ![p] = [procs[p] EXCEPT
                                !.pc = "Put", !.lease = l]]
                /\ result' = NoResp
    /\ UNCHANGED <<otherVars, kvVars, uuid, quota, gone, started, regs>>

\* ... and the copy is put under that lease, with no compare.
UpdateInstancePut(p) ==
    /\ procs[p].op \in {"UpdateStatus", "UpdateInstanceProperties"}
    /\ procs[p].pc = "Put"
    /\ LET in == procs[p].in
           l  == procs[p].lease
       IN  IF l \in DOMAIN leases /\ ~BackendFails
           THEN /\ kv' = KvPut(kv, GenerateInstanceKey(in.svc, in.iid),
                               procs[p].rec[1], l)
                /\ Return(p, Resp(p, procs[p].op, "Put", in,
                                  "SUCCESS", FALSE, ""))
           ELSE /\ Return(p, Resp(p, procs[p].op, "Put", in,
                                  "Internal", TRUE, ""))
                /\ UNCHANGED kv
    /\ UNCHANGED <<otherVars, services, leases, nextLease, uuid, quota, gone,
                   started, regs>>

(***************************************************************************)
(* HeartbeatSet                                                            *)
(***************************************************************************)
\* An element of the set is a pair <<ServiceId, InstanceId>>.
\* Line 340: the key of existFlag.
ExistFlagKey(e) == e[1] \o e[2]

\* Lines 339-348: the elements a heartbeat is scheduled for, in order; seen
\* is existFlag.
RECURSIVE NoMulti(_, _)
NoMulti(list, seen) ==
    IF list = <<>> THEN <<>>
    ELSE IF ExistFlagKey(Head(list)) \in seen
    THEN NoMulti(Tail(list), seen)
    ELSE <<Head(list)>>
            \o NoMulti(Tail(list), seen \cup {ExistFlagKey(Head(list))})

\* pb.InstanceHbRst
InstanceHbRst(e, msg) ==
    [serviceId |-> e[1], instanceId |-> e[2], errMessage |-> msg]

\* The handler's locals; tasks are the scheduled heartbeat functions that
\* have not sent their result yet, instancesHbRst is the channel (its
\* buffer), cap its capacity, closed whether it is closed; panicked: a
\* heartbeat function sent on the closed channel; cancelled: the context
\* of the request is done.
IdleHb ==
    [pc |-> "idle", in |-> <<>>, tasks |-> {}, instancesHbRst |-> <<>>,
     cap |-> 0, closed |-> FALSE, panicked |-> FALSE, cancelled |-> FALSE,
     noMultiCounter |-> 0, count |-> 0, successFlag |-> FALSE,
     failFlag |-> FALSE, instanceHbRstArr |-> <<>>]

\* pb.HeartbeatSetResponse, with the request and the elements scheduled.
HbResp(list, code, arr, sched) ==
    [p |-> "hb", op |-> "HeartbeatSet", at |-> "", req |-> NoReq,
     code |-> code, err |-> FALSE, instanceId |-> "", after |-> FALSE,
     set |-> list, instances |-> arr, scheduled |-> sched]

\* Fault variant: a channel that holds one result.
ChanCapOne(list) == 1

\* Line 337: the capacity of the channel is the number of elements of the
\* request.
ChanCap(list) == Len(list)

\* Lines 326-348: an empty set is refused; otherwise one heartbeat function
\* is handed to the pool for each element whose key is new. One channel is
\* followed at a time: a call begins when no heartbeat function of an
\* earlier call is left.
HeartbeatSet(list) ==
    /\ hb.pc = "idle"
    /\ hb.tasks = {}
    /\ Begin
    /\ IF Len(list) = 0
       THEN /\ result' = HbResp(list, "InvalidParams", <<>>, <<>>)
            /\ UNCHANGED hb
       ELSE /\ hb' = [IdleHb EXCEPT
                        !.pc = "range", !.in = list, !.cap = ChanCap(list),
                        !.tasks = {[element |-> NoMulti(list, {})[i],
                                    pc |-> "GetLeaseId", lease |-> NoLease] :
                                      i \in 1..Len(NoMulti(list, {}))},
                        !.noMultiCounter = Len(NoMulti(list, {}))]
            /\ result' = NoResp
    /\ UNCHANGED <<fault, findVars, kvVars, uuid, procs, quota, gone, regs>>

\* The heartbeat function sends its result on the channel (line 392): the
\* send waits while the buffer is full, and panics on a closed channel.
HbSend(t, msg) ==
    /\ hb.closed \/ Len(hb.instancesHbRst) < hb.cap
    /\ hb' = IF hb.closed
             THEN [hb EXCEPT !.tasks = @ \ {t}, !.panicked = TRUE]
             ELSE [hb EXCEPT !.tasks = @ \ {t},
                             !.instancesHbRst =
                                 Append(@, InstanceHbRst(t.element, msg))]

\* A call to the KV with a context that is done fails.
CtxDone == hb.cancelled

\* Lines 380-394, serviceUtil.HeartbeatUtil: the lease id is looked up.
HeartbeatFuncGetLeaseId(t) ==
    /\ t \in hb.tasks
    /\ t.pc = "GetLeaseId"
    /\ LET l == GetLeaseId(t.element[1], t.element[2])
       IN  IF CtxDone
           THEN HbSend(t, "context canceled")
           ELSE IF BackendFails
           THEN HbSend(t, "backend error")
           ELSE IF l = NoLease
           THEN HbSend(t, "leaseId not exist")
           ELSE hb' = [hb EXCEPT !.tasks = (@ \ {t}) \cup
                          {[t EXCEPT !.pc = "KeepAlive", !.lease = l]}]
    /\ result' = NoResp
    /\ UNCHANGED <<fault, findVars, kvVars, uuid, procs, quota, gone, started,
                   regs>>

\* serviceUtil.HeartbeatUtil: the lease is renewed.
HeartbeatFuncKeepAlive(t) ==
    /\ t \in hb.tasks
    /\ t.pc = "KeepAlive"
    /\ IF CtxDone
       THEN /\ HbSend(t, "context canceled")
            /\ UNCHANGED leases
       ELSE IF t.lease \in DOMAIN leases /\ ~BackendFails
       THEN /\ leases' = [leases EXCEPT
                            ![t.lease].remaining = leases[t.lease].ttl]
            /\ HbSend(t, "")
       ELSE /\ HbSend(t, "lease not found")
            /\ UNCHANGED leases
    /\ result' = NoResp
    /\ UNCHANGED <<fault, findVars, services, kv, nextLease, uuid, procs,
                   quota, gone, started, regs>>

\* Fault variant: the channel is closed with the first result.
CloseAtFirst(count) == count = 1

\* Line 361: the channel is closed with the result that makes count equal
\* to noMultiCounter.
CloseAt(count) == count = hb.noMultiCounter

\* Lines 353-364: one turn of the loop. The handler takes a result from the
\* channel, which it does from a closed channel too while the buffer holds
\* one; the context of the request is not looked at.
HeartbeatSetRange ==
    /\ hb.pc = "range"
    /\ hb.instancesHbRst # <<>>
    /\ LET heartbeat == Head(hb.instancesHbRst)
           count     == hb.count + 1
       IN  hb' = [hb EXCEPT
                    !.instancesHbRst = Tail(@),
                    !.count = count,
                    !.failFlag = @ \/ heartbeat.errMessage # "",
                    !.successFlag = @ \/ heartbeat.errMessage = "",
                    !.instanceHbRstArr = Append(@, heartbeat),
                    !.closed = @ \/ CloseAt(count)]
    /\ result' = NoResp
    /\ UNCHANGED <<fault, findVars, kvVars, uuid, procs, quota, gone, started,
                   regs>>

\* Lines 353 and 365-378: the loop ends when the channel is closed and its
\* buffer is empty, and the handler returns. The channel stays as it is
\* while a heartbeat function still holds it.
HeartbeatSetReturn ==
    /\ hb.pc = "range"
    /\ hb.closed
    /\ hb.instancesHbRst = <<>>
    /\ hb' = IF hb.tasks = {} THEN IdleHb ELSE [hb EXCEPT !.pc = "idle"]
    /\ result' = HbResp(hb.in,
                        IF ~hb.failFlag /\ hb.successFlag
                        THEN "SUCCESS" ELSE "InstanceNotExists",
                        hb.instanceHbRstArr, NoMulti(hb.in, {}))
    /\ UNCHANGED <<fault, findVars, kvVars, uuid, procs, quota, gone, started,
                   regs>>

\* The context of the request is cancelled (the caller went away or the
\* deadline passed) while the handler is in the loop.
Cancel ==
    /\ hb.pc = "range"
    /\ ~hb.cancelled
    /\ hb' = [hb EXCEPT !.cancelled = TRUE]
    /\ result' = NoResp
    /\ UNCHANGED <<fault, findVars, kvVars, uuid, procs, quota, gone, started,
                   regs>>

(***************************************************************************)
(* The environment: service registration (another component) and time.     *)
(***************************************************************************)
ServiceCreate(s) ==
    /\ s \notin services
    /\ services' = services \cup {s}
    /\ result' = NoResp
    /\ UNCHANGED <<otherVars, kv, leases, nextLease, uuid, procs, quota, gone,
                   started, regs>>

ServiceDelete(s) ==
    /\ s \in services
    /\ services' = services \ {s}
    /\ result' = NoResp
    /\ UNCHANGED <<otherVars, kv, leases, nextLease, uuid, procs, quota, gone,
                   started, regs>>

\* One second passes: a lease that is not renewed within its TTL expires,
\* and the KV deletes the keys it owns.
Expired == {l \in DOMAIN leases : leases[l].remaining <= 1}

Tick ==
    /\ DOMAIN leases # {}
    /\ leases' = [l \in DOMAIN leases \ Expired |->
                    [leases[l] EXCEPT !.remaining = @ - 1]]
    /\ kv' = KvDropLeases(kv, Expired)
    /\ result' = NoResp
    /\ UNCHANGED <<otherVars, services, nextLease, uuid, procs, quota, gone,
                   started, regs>>

(***************************************************************************)
(* Services, tenants and the context of a call.                            *)
(***************************************************************************)
\* pb.MicroService, as service registration (another component) stores it;
\* tags are the tags of the service.
MicroService(tenant, env, app, name, tags) ==
    [tenant |-> tenant, environment |-> env, appId |-> app,
     serviceName |-> name, alias |-> "", version |-> "1.0.0", tags |-> tags]

\* apt.Service, the registry's own service, and the shared services.
RegistryService ==
    MicroService("default", "prod", "default", "SERVICECENTER", {})

SharedServiceNames == {"SERVICECENTER"}

\* The service record of each service id.
ServiceOf(sid) ==
    CASE sid = "sc" -> RegistryService
      [] sid = "c1" -> MicroService("t1", "dev", "app", "consumer", {})
      [] sid = "c2" -> MicroService("t1", "dev", "other", "consumer", {})
      [] sid = "s2" -> MicroService("t2", "dev", "app", "svc", {})
      [] sid = "s1" -> MicroService("t1", "dev", "app", "svc", {"t"})
      [] sid = "sa" -> [MicroService("t1", "dev", "app", "svcA", {})
                            EXCEPT !.alias = "a"]
      [] OTHER      -> MicroService("t1", "dev", "app", sid, {})

\* The context of a call: the caller's domain/project, the target
\* domain/project it carries ("" if none) and the request revision.
Ctx(tenant, target, rev) == [tenant |-> tenant, target |-> target, rev |-> rev]

ParseDomainProject(ctx) == ctx.tenant

ParseTargetDomainProject(ctx) ==
    IF ctx.target = "" THEN ctx.tenant ELSE ctx.target

\* serviceUtil.GetService / serviceUtil.ServiceExist
ServiceExist(domainProject, sid) ==
    sid \in services /\ ServiceOf(sid).tenant = domainProject

\* serviceUtil.GetAllInstancesOfOneService
GetAllInstancesOfOneService(sid) ==
    {kv[k].val : k \in {x \in DOMAIN kv : x[1] = "inst" /\ x[2] = sid}}

\* Fault variant: no error is taken for an internal one.
InternalErrorNever(code) == FALSE

\* scerr.Error.InternalError
InternalError(code) == code \in {"Internal", "Unavailable"}

\* serviceUtil.Accessible: a consumer of another application is denied.
Accessible(consumerServiceId, providerServiceId) ==
    IF consumerServiceId = "" THEN ""
    ELSE IF ServiceOf(consumerServiceId).appId
                # ServiceOf(providerServiceId).appId
    THEN "Forbidden"
    ELSE ""

\* The response of a read: the response fields, the call (context and
\* request), the instances returned and the response revision.
ReadResp(p, op, at, code, err, ctx, in, instances, rev) ==
    [p |-> p, op |-> op, at |-> at, req |-> NoReq, code |-> code,
     err |-> err, instanceId |-> "", after |-> FALSE, ttl |-> 0,
     ctx |-> ctx, in |-> in, instances |-> instances, rev |-> rev]

\* The backend call of a read handler that fails, 0 for none: the failure
\* may begin while the handler runs.
FailAt(n) == IF BackendFails THEN 1..n ELSE {0}

(***************************************************************************)
(* getInstancePreCheck, GetInstances, GetOneInstance, ClusterHealth        *)
(***************************************************************************)
GetReq(consumer, provider, iid, tags) ==
    [consumer |-> consumer, provider |-> provider, iid |-> iid,
     tags |-> tags]

\* Lines 442-466: the provider exists, carries every requested tag, and
\* the consumer may access it. failAt: 1 ServiceExist, 2 GetTagsUtils,
\* 3 Accessible.
getInstancePreCheck(ctx, providerServiceId, consumerServiceId, tags, failAt) ==
    IF failAt = 1
        \/ ~ServiceExist(ParseTargetDomainProject(ctx), providerServiceId)
    THEN "ServiceNotExists"
    ELSE IF tags # {} /\ failAt = 2
    THEN "Internal"
    ELSE IF tags # {} /\ ServiceOf(providerServiceId).tags = {}
    THEN "TagNotExists"
    ELSE IF \E tag \in tags : tag \notin ServiceOf(providerServiceId).tags
    THEN "TagNotExists"
    ELSE IF failAt = 3
    THEN "Internal"
    ELSE Accessible(consumerServiceId, providerServiceId)

\* Lines 468-503.
GetInstances(p, ctx, in) ==
    /\ Idle(p)
    /\ Begin
    /\ \E failAt \in FailAt(4) :
        LET checkErr == getInstancePreCheck(ctx, in.provider, in.consumer,
                                            in.tags, failAt)
        IN  result' =
              IF checkErr # ""
              THEN ReadResp(p, "GetInstances", "getInstancePreCheck",
                            checkErr, InternalError(checkErr), ctx, in,
                            {}, "")
              ELSE IF failAt = 4
              THEN ReadResp(p, "GetInstances",
                            "GetAllInstancesOfOneService", "Internal",
                            TRUE, ctx, in, {}, "")
              ELSE ReadResp(p, "GetInstances", "", "SUCCESS", FALSE, ctx, in,
                            GetAllInstancesOfOneService(in.provider), "")
    /\ UNCHANGED <<otherVars, kvVars, uuid, procs, quota, gone, regs>>

\* Lines 396-440.
GetOneInstance(p, ctx, in) ==
    /\ Idle(p)
    /\ Begin
    /\ \E failAt \in FailAt(4) :
        LET checkErr == getInstancePreCheck(ctx, in.provider, in.consumer,
                                            in.tags, failAt)
            instance == GetInstance(in.provider, in.iid)
        IN  result' =
              IF checkErr # ""
              THEN ReadResp(p, "GetOneInstance", "getInstancePreCheck",
                            checkErr, InternalError(checkErr), ctx, in,
                            {}, "")
              ELSE IF failAt = 4
              THEN ReadResp(p, "GetOneInstance", "GetInstance", "Internal",
                            TRUE, ctx, in, {}, "")
              ELSE IF instance = <<>>
              THEN ReadResp(p, "GetOneInstance", "GetInstance",
                            "InstanceNotExists", FALSE, ctx, in, {}, "")
              ELSE ReadResp(p, "GetOneInstance", "", "SUCCESS", FALSE, ctx,
                            in, {instance[1]}, "")
    /\ UNCHANGED <<otherVars, kvVars, uuid, procs, quota, gone, regs>>

\* Lines 760-796: the instances of the registry's own service.
ClusterHealth(p) ==
    /\ Idle(p)
    /\ Begin
    /\ \E failAt \in FailAt(2) :
        LET ctx == Ctx(RegistryService.tenant, "", "")
            in  == GetReq("", "sc", "", {})
        IN  result' =
              IF failAt = 1
              THEN ReadResp(p, "ClusterHealth", "GetServiceId", "Internal",
                            TRUE, ctx, in, {}, "")
              ELSE IF "sc" \notin services
              THEN ReadResp(p, "ClusterHealth", "GetServiceId",
                            "ServiceNotExists", FALSE, ctx, in, {}, "")
              ELSE IF failAt = 2
              THEN ReadResp(p, "ClusterHealth",
                            "GetAllInstancesOfOneService", "Internal",
                            TRUE, ctx, in, {}, "")
              ELSE ReadResp(p, "ClusterHealth", "", "SUCCESS", FALSE, ctx,
                            in, GetAllInstancesOfOneService("sc"), "")
    /\ UNCHANGED <<otherVars, kvVars, uuid, procs, quota, gone, regs>>

(***************************************************************************)
(* The find cache (cache.FindInstances)                                    *)
(***************************************************************************)
\* pb.MicroServiceKey
MicroServiceKey(tenant, env, app, name, version) ==
    [tenant |-> tenant, environment |-> env, appId |-> app,
     serviceName |-> name, version |-> version]

\* pb.MicroServiceToKey
MicroServiceToKey(tenant, service) ==
    MicroServiceKey(tenant, service.environment, service.appId,
                    service.serviceName, service.version)

\* apt.IsShared
IsShared(key) ==
    /\ key.appId = RegistryService.appId
    /\ key.serviceName \in SharedServiceNames

\* The key of an entry: the arguments of Get that select the payload.
CacheKey(service, provider, tags) ==
    [consumer |-> service, provider |-> provider, tags |-> tags]

\* The services a provider key resolves to, by name or by alias (the
\* version rule is "0+": every version matches), and the payload built for
\* a cache key.
ProviderIds(provider) ==
    {sid \in services :
        /\ ServiceOf(sid).tenant = provider.tenant
        /\ ServiceOf(sid).environment = provider.environment
        /\ ServiceOf(sid).appId = provider.appId
        /\ \/ ServiceOf(sid).serviceName = provider.serviceName
           \/ /\ ServiceOf(sid).alias # ""
              /\ ServiceOf(sid).alias = provider.serviceName}

Payload(key) ==
    LET ids == {sid \in ProviderIds(key.provider) :
                    key.tags \subseteq ServiceOf(sid).tags}
    IN  [serviceIds |-> ids,
         instances |-> UNION {GetAllInstancesOfOneService(sid) : sid \in ids}]

PayloadOf(entry) ==
    [serviceIds |-> entry.serviceIds, instances |-> entry.instances]

\* The revision is a number, printed.
FormatRevision(rev) == ToString(rev)

\* Fault variant: the revision is computed from the payload alone (here
\* from the number of instances).
RebuildRevOfPayload(key) ==
    [serviceIds |-> Payload(key).serviceIds,
     instances |-> Payload(key).instances,
     rev |-> 1 + Cardinality(Payload(key).instances), valid |-> TRUE]

\* Rebuild: the payload is read from the KV; the same payload keeps the
\* revision of the entry, another payload gets the next one.
Rebuild(key) ==
    [serviceIds |-> Payload(key).serviceIds,
     instances |-> Payload(key).instances,
     rev |-> IF key \notin DOMAIN cache THEN 1
             ELSE IF PayloadOf(cache[key]) = Payload(key)
             THEN cache[key].rev
             ELSE cache[key].rev + 1,
     valid |-> TRUE]

\* An entry that the watcher has not invalidated serves the call.
Valid(key) == key \in DOMAIN cache /\ cache[key].valid

CachePut(key, entry) ==
    [k \in DOMAIN cache \cup {key} |-> IF k = key THEN entry ELSE cache[k]]

\* Fault variant: an invalidated entry is served again as it is.
FindInstancesGetKeepsStale(key) ==
    IF key \in DOMAIN cache
    THEN [item |-> <<cache[key]>>,
          cache |-> [cache EXCEPT ![key].valid = TRUE]]
    ELSE IF ProviderIds(key.provider) = {}
    THEN [item |-> <<>>, cache |-> cache]
    ELSE [item |-> <<Rebuild(key)>>, cache |-> CachePut(key, Rebuild(key))]

\* cache.FindInstances.Get: the item (none if no provider matches) and the
\* cache after the call.
FindInstancesGet(key) ==
    IF Valid(key)
    THEN [item |-> <<cache[key]>>, cache |-> cache]
    ELSE IF ProviderIds(key.provider) = {}
    THEN [item |-> <<>>, cache |-> cache]
    ELSE [item |-> <<Rebuild(key)>>, cache |-> CachePut(key, Rebuild(key))]

\* The watcher invalidates an entry (a change event of a contributing
\* record came in, or the entry is evicted).
Invalidate(key) ==
    /\ Valid(key)
    /\ cache' = [cache EXCEPT ![key].valid = FALSE]
    /\ result' = NoResp
    /\ UNCHANGED <<hb, fault, deps, kvVars, uuid, procs, quota, gone,
                   started, regs>>

(***************************************************************************)
(* Find                                                                    *)
(***************************************************************************)
FindReq(consumer, env, app, name, rule, tags) ==
    [consumer |-> consumer, environment |-> env, appId |-> app,
     serviceName |-> name, versionRule |-> rule, tags |-> tags]

\* Lines 514-534: the consumer, or a service with the request's environment.
FindService(ctx, in) ==
    IF in.consumer = ""
    THEN MicroServiceKey("", in.environment, "", "", "")
    ELSE MicroServiceToKey("", ServiceOf(in.consumer))

\* Fault variant: the provider is looked for in the target domain/project
\* that the request carries.
FindProviderInTarget(ctx, in) ==
    LET provider == MicroServiceKey(ParseTargetDomainProject(ctx),
                                    FindService(ctx, in).environment,
                                    in.appId, in.serviceName, in.versionRule)
    IN  IF IsShared(provider)
        THEN [provider EXCEPT !.environment = RegistryService.environment]
        ELSE provider

\* Lines 536-565: the provider key. A shared provider is looked for in the
\* registry's environment, any other in the caller's own domain/project.
FindProvider(ctx, in) ==
    LET provider == MicroServiceKey(ParseTargetDomainProject(ctx),
                                    FindService(ctx, in).environment,
                                    in.appId, in.serviceName, in.versionRule)
    IN  IF IsShared(provider)
        THEN [provider EXCEPT !.environment = RegistryService.environment]
        ELSE [provider EXCEPT !.tenant = ParseDomainProject(ctx)]

FindKey(ctx, in) ==
    CacheKey(FindService(ctx, in), FindProvider(ctx, in), in.tags)

\* Lines 659-670
reshapeProviderKey(provider, providerId) ==
    IF ServiceExist(provider.tenant, providerId)
    THEN <<[MicroServiceToKey(provider.tenant, ServiceOf(providerId))
                EXCEPT !.version = provider.version]>>
    ELSE <<>>

\* cache.DependencyRule.ExistVersionRule: the consumer has recorded a rule
\* for this provider key.
ExistVersionRule(consumerId, provider) == <<consumerId, provider>> \in deps

\* Fault variant: the request revision is never taken for the entry's.
RevEqualNever(rev, item) == FALSE

\* Line 608: rev == item.Rev
RevEqual(rev, item) == rev = FormatRevision(item.rev)

\* Lines 505-617, as a function of the state: the response, the cache and
\* the dependency rules after the call. failAt: 1 GetService of the
\* consumer, 2 cache Get, 3 GetService of the provider,
\* 4 AddServiceVersionRule.
FindCall(p, ctx, in, failAt) ==
    LET provider == FindProvider(ctx, in)
        got      == FindInstancesGet(FindKey(ctx, in))
        fail(at, code, c) ==
            [resp |-> ReadResp(p, "Find", at, code, InternalError(code),
                               ctx, in, {}, ""),
             cache |-> c, deps |-> deps]
    IN  IF in.consumer # "" /\ failAt = 1
        THEN fail("GetService", "Internal", cache)
        ELSE IF in.consumer # ""
                /\ ~ServiceExist(ParseDomainProject(ctx), in.consumer)
        THEN fail("GetService", "ServiceNotExists", cache)
        ELSE IF failAt = 2
        THEN fail("Get", "Internal", cache)
        ELSE IF got.item = <<>>
        THEN fail("Get", "ServiceNotExists", cache)
        ELSE
          LET item == got.item[1]
              addRule == /\ in.consumer # ""
                         /\ item.serviceIds # {}
                         /\ ~ExistVersionRule(in.consumer, provider)
              reshaped == IF addRule /\ failAt # 3
                          THEN reshapeProviderKey(provider,
                                   CHOOSE sid \in item.serviceIds : TRUE)
                          ELSE <<>>
          IN  IF addRule /\ reshaped = <<>>
              THEN fail("reshapeProviderKey", "ServiceNotExists", got.cache)
              ELSE IF addRule /\ failAt = 4
              THEN fail("AddServiceVersionRule", "Internal", got.cache)
              ELSE [resp |-> ReadResp(p, "Find", "", "SUCCESS", FALSE, ctx,
                                      in,
                                      IF RevEqual(ctx.rev, item)
                                      THEN {} ELSE item.instances,
                                      FormatRevision(item.rev)),
                    cache |-> got.cache,
                    deps |-> IF addRule
                             THEN deps \cup {<<in.consumer, reshaped[1]>>}
                             ELSE deps]

Find(p, ctx, in) ==
    /\ Idle(p)
    /\ Begin
    /\ \E failAt \in FailAt(4) :
        \E found \in {FindCall(p, ctx, in, failAt)} :
            /\ result' = found.resp
            /\ cache' = found.cache
            /\ deps' = found.deps
    /\ \A k \in DOMAIN cache' : cache'[k].rev <= MaxRev
    /\ UNCHANGED <<hb, fault, kvVars, uuid, procs, quota, gone, regs>>

(***************************************************************************)
(* BatchFind                                                               *)
(***************************************************************************)
\* pb.FindService: the provider looked for and the revision the caller has.
FindServiceKey(env, app, name, version, rev) ==
    [environment |-> env, appId |-> app, serviceName |-> name,
     version |-> version, rev |-> rev]

BatchFindReq(consumer, list) == [consumer |-> consumer, services |-> list]

\* pb.BatchFindInstancesResponse, with the call and, as history, the Find
\* calls made for it: for each the request revision, the request and the
\* code of its response.
BatchResp(p, code, err, ctx, in, updated, notModified, failed, calls) ==
    [p |-> p, op |-> "BatchFind", at |-> "", req |-> NoReq, code |-> code,
     err |-> err, instanceId |-> "", after |-> FALSE, ttl |-> 0,
     ctx |-> ctx, in |-> in, updated |-> updated,
     notModified |-> notModified, failed |-> failed, calls |-> calls]

\* Fault variant: the context of the call is passed on as it is.
CloneCtxKeepsRev(ctx, key) == ctx

\* Line 633: the context with the element's revision as request revision.
CloneCtx(ctx, key) == [ctx EXCEPT !.rev = key.rev]

\* serviceUtil.AppendFindResponse: a failure goes to the failed entry of its
\* code (made if there is none), a response whose revision is the request
\* revision to notModified, any other to updated.
AppendFindResponse(ctx, index, resp, updated, notModified, failed) ==
    IF resp.code # "SUCCESS"
    THEN [updated |-> updated, notModified |-> notModified,
          failed |-> <<[code |-> resp.code,
                        indexes |-> (IF failed = <<>> THEN <<>>
                                     ELSE failed[1].indexes)
                                        \o <<index>>]>>]
    ELSE IF ctx.rev # "" /\ ctx.rev = resp.rev
    THEN [updated |-> updated, notModified |-> Append(notModified, index),
          failed |-> failed]
    ELSE [updated |-> Append(updated,
                             [index |-> index, instances |-> resp.instances,
                              rev |-> resp.rev]),
          notModified |-> notModified, failed |-> failed]

\* Lines 619-631: the response and the map of failed results, both empty.
\* The handler's locals are kept in the worker's rec; index is the index of
\* the next element, counted from 0.
BatchFind(p, ctx, in) ==
    /\ Idle(p)
    /\ Begin
    /\ IF in.services = <<>>
       THEN ReturnAtOnce(p, BatchResp(p, "SUCCESS", FALSE, ctx, in,
                                      <<>>, <<>>, {}, <<>>))
       ELSE Enter(p, "BatchFind", "Find", NoReq, NoLease,
                  <<[ctx |-> ctx, in |-> in, index |-> 0, updated |-> <<>>,
                     notModified |-> <<>>, failedResult |-> <<>>,
                     calls |-> <<>>]>>)
    /\ UNCHANGED <<otherVars, kvVars, uuid, quota, gone, regs>>

\* Lines 632-657: one turn of the loop. Find is called for the element
\* with the element's revision as the request revision; a transport error
\* ends the call with the response of that Find; otherwise the response is
\* appended to its bucket. After the last element the handler returns.
BatchFindElement(p) ==
    /\ At(p, "BatchFind", "Find")
    /\ \E failAt \in FailAt(4) :
      \E l \in {procs[p].rec[1]} :
      \E key \in {l.in.services[l.index + 1]} :
      \E cloneCtx \in {CloneCtx(l.ctx, key)} :
      \E req \in {FindReq(l.in.consumer, key.environment, key.appId,
                          key.serviceName, key.version, {})} :
      \E found \in {FindCall(p, cloneCtx, req, failAt)} :
        LET resp     == found.resp
            calls    == Append(l.calls, [rev |-> cloneCtx.rev, in |-> req,
                                         code |-> resp.code,
                                         respRev |-> resp.rev])
            ok       == resp.code \in DOMAIN l.failedResult
            failed   == IF ok THEN <<l.failedResult[resp.code]>> ELSE <<>>
            app      == AppendFindResponse(cloneCtx, l.index, resp,
                                           l.updated, l.notModified, failed)
            failedResult ==
                IF app.failed # <<>>
                THEN [c \in DOMAIN l.failedResult \cup {resp.code} |->
                        IF c = resp.code THEN app.failed[1]
                        ELSE l.failedResult[c]]
                ELSE l.failedResult
        IN  /\ cache' = found.cache
            /\ deps' = found.deps
            /\ IF resp.err
               THEN Return(p, BatchResp(p, resp.code, TRUE, l.ctx, l.in,
                                        <<>>, <<>>, {}, calls))
               ELSE IF l.index + 1 = Len(l.in.services)
               THEN Return(p, BatchResp(p, "SUCCESS", FALSE, l.ctx, l.in,
                                        app.updated, app.notModified,
                                        {failedResult[c] :
                                            c \in DOMAIN failedResult},
                                        calls))
               ELSE /\ procs' = [procs EXCEPT ![p].rec =
                                    <<[l EXCEPT !.index = @ + 1,
                                                !.updated = app.updated,
                                                !.notModified =
                                                    app.notModified,
                                                !.failedResult = failedResult,
                                                !.calls = calls]>>]
                    /\ result' = NoResp
    /\ \A k \in DOMAIN cache' : cache'[k].rev <= MaxRev
    /\ UNCHANGED <<hb, fault, kvVars, uuid, quota, gone, started, regs>>

\* The environment turns a failure on or off.
Inject(f) ==
    /\ f # fault
    /\ fault' = f
    /\ result' = NoResp
    /\ UNCHANGED <<hb, findVars, kvVars, uuid, procs, quota, gone, started,
                   regs>>

(***************************************************************************)
(* The concurrent registry: every RPC on a worker of its own.              *)
(***************************************************************************)
Services == {"s1"}
CallerIds == {"", "i1"}
Endpoints == {<<"a">>, <<"b">>}
HealthChecks == {HC("HEARTBEAT", 1, 1)}
InstanceIds == {"i1", "u1"}

RegisterReqs ==
    {Req(s, i, e, "h", hc, "", "", FALSE) :
        s \in Services, i \in CallerIds, e \in Endpoints, hc \in HealthChecks}

IdReqs ==
    {Req(s, i, <<>>, "", NoHC, "", "", FALSE) :
        s \in Services, i \in InstanceIds}

StatusReqs ==
    {Req(s, i, <<>>, "", NoHC, "DOWN", "", FALSE) :
        s \in Services, i \in InstanceIds}

PropsReqs ==
    {Req(s, i, <<>>, "", NoHC, "", "x", FALSE) :
        s \in Services, i \in InstanceIds}

Init ==
    /\ services = {}
    /\ kv = <<>>
    /\ leases = <<>>
    /\ nextLease = 0
    /\ uuid = 0
    /\ procs = [p \in Procs |-> IdleProc]
    /\ result = NoResp
    /\ quota = [applied |-> 0, open |-> 0, closed |-> 0, used |-> 0]
    /\ gone = {}
    /\ started = 0
    /\ regs = 0
    /\ hb = IdleHb
    /\ fault = "none"
    /\ cache = <<>>
    /\ deps = {}

Next ==
    \/ \E p \in Procs, in \in RegisterReqs : Register(p, in)
    \/ \E p \in Procs : RegisterPreProcess(p)
    \/ \E p \in Procs : RegisterLeaseGrant(p)
    \/ \E p \in Procs : RegisterTxn(p)
    \/ \E p \in Procs, in \in IdReqs : Unregister(p, in)
    \/ \E p \in Procs : UnregisterGetLeaseId(p)
    \/ \E p \in Procs : UnregisterLeaseRevoke(p)
    \/ \E p \in Procs, in \in IdReqs : Heartbeat(p, in)
    \/ \E p \in Procs : HeartbeatKeepAlive(p)
    \/ \E p \in Procs, in \in StatusReqs : UpdateStatus(p, in)
    \/ \E p \in Procs, in \in PropsReqs : UpdateInstanceProperties(p, in)
    \/ \E p \in Procs : UpdateInstanceGetLeaseId(p)
    \/ \E p \in Procs : UpdateInstancePut(p)
    \/ \E s \in Services : ServiceCreate(s)
    \/ \E s \in Services : ServiceDelete(s)
    \/ Tick

Spec == Init /\ [][Next]_vars

(***************************************************************************)
(* Claims about the concurrent registry.                                   *)
(***************************************************************************)
InstanceKeys == {k \in DOMAIN kv : k[1] = "inst"}

\* C1: in every reachable state an instance key exists if and only if its
\* sibling lease key exists, the lease key's value is the printed id of the
\* lease attached to both keys, and that lease is live.
C1_InstanceAndLeaseKeyTogether ==
    \A k \in DOMAIN kv :
        LET ik == GenerateInstanceKey(k[2], k[3])
            lk == GenerateInstanceLeaseKey(k[2], k[3])
        IN  /\ ik \in DOMAIN kv
            /\ lk \in DOMAIN kv
            /\ kv[ik].lease = kv[lk].lease
            /\ kv[lk].val = FormatLeaseID(kv[lk].lease)
            /\ kv[lk].lease \in DOMAIN leases

\* C3: no two live instances of one service share their endpoints, and a
\* Register that succeeds returns the id of the one instance that has the
\* endpoints of its request.
C3_NoDuplicateEndpoints ==
    /\ \A k1 \in InstanceKeys, k2 \in InstanceKeys :
          (k1[2] = k2[2] /\ kv[k1].val.endpoints = kv[k2].val.endpoints)
              => k1 = k2
    /\ (result.op = "Register" /\ result.code = "SUCCESS")
          => InstanceExist(result.req) = {result.instanceId}

\* C7: a Heartbeat or an Unregister that begins after an Unregister of the
\* same (service_id, instance_id) returned SUCCESS, with no Register of that
\* instance committed in between, returns InstanceNotExists in the response
\* body with no transport error.
C7_InstanceNotExistsAfterUnregister ==
    (result.op \in {"Heartbeat", "Unregister"} /\ result.after)
        => (result.code = "InstanceNotExists" /\ ~result.err)

\* C8 (safety part): lease expiry removes an instance key only together with
\* its lease key, and only when the lease that Heartbeat renews for the
\* instance (the one its lease key names) has run out in that second.
C8_EvictedOnlyWhenNotRenewed ==
    [][Tick =>
        \A k \in InstanceKeys :
            k \notin DOMAIN kv' =>
                /\ GenerateInstanceLeaseKey(k[2], k[3]) \notin DOMAIN kv'
                /\ GetLeaseId(k[2], k[3]) \in Expired]_vars

(***************************************************************************)
(* Registration against service creation and deletion.                     *)
(***************************************************************************)
NextReg ==
    \/ \E p \in Procs, in \in RegisterReqs : Register(p, in)
    \/ \E p \in Procs : RegisterPreProcess(p)
    \/ \E p \in Procs : RegisterLeaseGrant(p)
    \/ \E p \in Procs : RegisterTxn(p)
    \/ \E s \in Services : ServiceCreate(s)
    \/ \E s \in Services : ServiceDelete(s)
    \/ Tick

SpecReg == Init /\ [][NextReg]_vars

\* Worker p takes the step of Register that stands at pc.
RegisterStep(p, pc) ==
    At(p, "Register", pc) /\ procs'[p].pc # procs[p].pc

\* Worker p receives a Register call.
RegisterCalled(p) ==
    /\ Idle(p)
    /\ regs' # regs
    /\ procs'[p].op = "Register" \/ (result'.op = "Register" /\ result'.p = p)

\* The request of the call that worker p receives.
RegisterReq(p) ==
    IF procs'[p].op = "Register" THEN procs'[p].in ELSE result'.req

\* C2: Register puts the instance key and the lease key only in its
\* transaction and only when the service key exists at the commit; when the
\* service is missing where preprocess reads it, or at the commit, Register
\* returns ServiceNotExists and writes no key.
C2_RegisterOnlyUnderExistingService ==
    [][\A p \in Procs :
        /\ (/\ RegisterStep(p, "preProcess")
            /\ preProcessHealthCheck(procs[p].in.hc).err = ""
            /\ procs[p].in.svc \notin services)
              => /\ result'.p = p
                 /\ result'.code = "ServiceNotExists"
                 /\ ~result'.err
                 /\ kv' = kv
        /\ (RegisterStep(p, "Txn") /\ procs[p].in.svc \notin services)
              => /\ result'.p = p
                 /\ result'.code = "ServiceNotExists"
                 /\ ~result'.err
                 /\ kv' = kv
        /\ (/\ \/ RegisterCalled(p)
               \/ \E pc \in {"preProcess", "LeaseGrant", "Txn"} :
                      RegisterStep(p, pc)
            /\ kv' # kv)
              => /\ RegisterStep(p, "Txn")
                 /\ procs[p].in.svc \in services
                 /\ result'.code = "SUCCESS"
                 /\ DOMAIN kv' = DOMAIN kv \cup
                       {GenerateInstanceKey(procs[p].in.svc,
                                            result'.instanceId),
                        GenerateInstanceLeaseKey(procs[p].in.svc,
                                                 result'.instanceId)}]_vars

\* The service was deleted between preprocess and commit.
C2_ServiceDeletedBeforeCommit ==
    /\ result.op = "Register"
    /\ result.at = "Txn"
    /\ result.code = "ServiceNotExists"

\* C4: a Register for (service_id, endpoints, host_name) of a live instance
\* returns SUCCESS with the id of that instance at once: no quota is applied,
\* no lease is granted, and the KV and the leases are as before.
C4_RepeatedRegisterIsIdempotent ==
    [][\A p \in Procs :
        (RegisterCalled(p) /\ InstanceExist(RegisterReq(p)) # {})
            => /\ result'.op = "Register"
               /\ result'.p = p
               /\ result'.code = "SUCCESS"
               /\ ~result'.err
               /\ result'.instanceId \in InstanceExist(RegisterReq(p))
               /\ UNCHANGED <<services, kv, leases, nextLease, quota>>]_vars

\* The second of two equal Register calls is answered with the first's id.
C4_SecondRegisterAnswered ==
    /\ result.op = "Register"
    /\ result.at = "InstanceExist"
    /\ result.code = "SUCCESS"
    /\ InstanceExist(result.req) = {result.instanceId}
    /\ nextLease = 1
    /\ quota.applied = 1

(***************************************************************************)
(* Registration over the health checks a caller can send.                  *)
(***************************************************************************)
Modes == {"HEARTBEAT", "PLATFORM", "PUSH"}
Intervals == {-1, 0, 1, 30, 65536, MaxInt32}
Times == {-1, 0, 3, 65536, MaxInt32}

AnyHealthChecks ==
    {NoHC} \cup {HC(m, i, t) : m \in Modes, i \in Intervals, t \in Times}

HealthCheckReqs ==
    {Req("s1", "i1", <<"a">>, "h", hc, "", "", FALSE) : hc \in AnyHealthChecks}

NextHC ==
    \/ \E in \in HealthCheckReqs : Register("p1", in)
    \/ RegisterPreProcess("p1")
    \/ RegisterLeaseGrant("p1")
    \/ RegisterTxn("p1")
    \/ ServiceCreate("s1")

SpecHC == Init /\ [][NextHC]_vars

\* interval * (times + 1) <= 0 or >= 2^31, the product taken over the
\* integers (computed without leaving 32 bits).
ProductOutOfRange(i, t) ==
    IF i = 0 \/ t = -1 THEN TRUE
    ELSE IF (i > 0) # (t > -1) THEN TRUE
    ELSE IF i > 0 THEN t = MaxInt32 \/ i > MaxInt32 \div (t + 1)
    ELSE i = MinInt32 \/ -i > MaxInt32 \div (-(t + 1))

\* The health check of a request once the defaults are applied.
EffectiveHC(hc) ==
    IF hc = NoHC \/ hc.mode = "PLATFORM"
    THEN HC("", REGISTRY_DEFAULT_LEASE_RENEWALINTERVAL,
            REGISTRY_DEFAULT_LEASE_RETRYTIMES)
    ELSE hc

OutOfRange(hc) ==
    ProductOutOfRange(EffectiveHC(hc).interval, EffectiveHC(hc).times)

\* C5: a Register whose interval * (retry_times + 1) is <= 0 or >= 2^31 is
\* answered InvalidParams by preprocess: it never comes to apply the quota,
\* to grant a lease or to commit, so that no record is stored with such a
\* health check and every lease has a TTL above 0.
C5_OutOfRangeHealthCheckRejected ==
    /\ \A p \in Procs :
          (procs[p].op = "Register" /\ procs[p].pc \in {"LeaseGrant", "Txn"})
              => ~OutOfRange(procs[p].in.hc)
    /\ \A k \in InstanceKeys :
          ~ProductOutOfRange(kv[k].val.healthCheck.interval,
                             kv[k].val.healthCheck.times)
    /\ \A l \in DOMAIN leases : leases[l].ttl > 0

\* C6: a Register in mode PLATFORM, whatever interval and retry_times it
\* carries, and a Register with no health check are never refused for their
\* health check; once committed, the record holds interval 30 and
\* retry_times 3 (in mode PLATFORM, resp. HEARTBEAT) and both keys are under
\* a lease of TTL 120.
C6_PlatformAndAbsentGetDefaults ==
    (result.op = "Register"
        /\ (result.req.hc = NoHC \/ result.req.hc.mode = "PLATFORM"))
      => /\ result.code # "InvalidParams"
         /\ (result.at = "Txn" /\ result.code = "SUCCESS") =>
              LET ik == GenerateInstanceKey(result.req.svc, result.instanceId)
                  lk == GenerateInstanceLeaseKey(result.req.svc,
                                                 result.instanceId)
              IN  /\ ik \in DOMAIN kv
                  /\ lk \in DOMAIN kv
                  /\ kv[ik].val.healthCheck =
                        HC(IF result.req.hc = NoHC THEN "HEARTBEAT"
                           ELSE "PLATFORM", 30, 3)
                  /\ kv[ik].lease = kv[lk].lease
                  /\ kv[ik].lease \in DOMAIN leases
                  /\ leases[kv[ik].lease].ttl = 120

\* A PLATFORM registration with interval 0 and retry_times -1 is committed.
C6_PlatformZeroCommitted ==
    /\ result.op = "Register"
    /\ result.at = "Txn"
    /\ result.code = "SUCCESS"
    /\ result.req.hc = HC("PLATFORM", 0, -1)

(***************************************************************************)
(* Batch heartbeats over registered and unregistered instances.            *)
(***************************************************************************)
\* Elements of one HeartbeatSet.
MaxHb == 2

HbServices == {"s", "s1"}
HbInstanceIds == {"1i", "i"}
HbElements == {<<s, i>> : s \in HbServices, i \in HbInstanceIds}
HbSets == UNION {[1..n -> HbElements] : n \in 0..MaxHb}

HbRegisterReqs ==
    {Req(e[1], e[2], e, "h", HC("HEARTBEAT", 1, 1), "", "", FALSE) :
        e \in HbElements}

NextHb ==
    \/ \E s \in HbServices : ServiceCreate(s)
    \/ \E in \in HbRegisterReqs : Register("p1", in)
    \/ RegisterPreProcess("p1")
    \/ RegisterLeaseGrant("p1")
    \/ RegisterTxn("p1")
    \/ \E list \in HbSets : HeartbeatSet(list)
    \/ \E t \in hb.tasks : HeartbeatFuncGetLeaseId(t)
    \/ \E t \in hb.tasks : HeartbeatFuncKeepAlive(t)
    \/ HeartbeatSetRange
    \/ HeartbeatSetReturn
    \/ Tick

SpecHb == Init /\ [][NextHb]_vars

\* The elements of a list, as a set.
Range(list) == {list[i] : i \in 1..Len(list)}

ResultPairs(arr) == {<<r.serviceId, r.instanceId>> : r \in Range(arr)}

\* C9: the response to a HeartbeatSet whose elements are K distinct
\* (service_id, instance_id) pairs shows one heartbeat scheduled for each of
\* the K pairs and holds K results, one for each pair.
C9_OneResultPerDistinctPair ==
    (result.op = "HeartbeatSet" /\ result.set # <<>>) =>
        LET K == Cardinality(Range(result.set))
        IN  /\ Len(result.scheduled) = K
            /\ Range(result.scheduled) = Range(result.set)
            /\ Len(result.instances) = K
            /\ ResultPairs(result.instances) = Range(result.set)

\* C10: the response to a non-empty HeartbeatSet is SUCCESS exactly when
\* every result in it has an empty error message, InstanceNotExists when one
\* has not, and holds a result for every pair of the request; an empty
\* HeartbeatSet is answered InvalidParams with no heartbeat scheduled.
C10_TopLevelCodeAggregates ==
    result.op = "HeartbeatSet" =>
        IF result.set = <<>>
        THEN /\ result.code = "InvalidParams"
             /\ result.scheduled = <<>>
             /\ result.instances = <<>>
             /\ hb.tasks = {}
        ELSE /\ result.code = "SUCCESS" <=>
                    \A r \in Range(result.instances) : r.errMessage = ""
             /\ (\E r \in Range(result.instances) : r.errMessage # "")
                    => result.code = "InstanceNotExists"
             /\ \A e \in Range(result.set) :
                    \E r \in Range(result.instances) :
                        <<r.serviceId, r.instanceId>> = e

(***************************************************************************)
(* The registry with a failing backend: one worker serves every RPC while  *)
(* the environment turns failures on and off.                              *)
(***************************************************************************)
\* The registry's own instance, and a health check that is refused.
ErrRegisterReqs ==
    RegisterReqs
        \cup {Req("s1", "i1", <<"a">>, "h", HC("HEARTBEAT", 1, 1), "", "",
                  TRUE),
              Req("s1", "i1", <<"a">>, "h", HC("PUSH", 0, 0), "", "", FALSE)}

\* A consumer of another application, and a tag the provider lacks.
ErrGetReqs ==
    {GetReq("c2", "s1", "i1", {}), GetReq("", "s1", "i1", {"x"})}

ErrFindReqs == {FindReq("", "dev", "app", "svc", "0+", {})}

NextErr ==
    \/ \E f \in Faults : Inject(f)
    \/ \E s \in Services : ServiceCreate(s)
    \/ \E s \in Services : ServiceDelete(s)
    \/ \E in \in ErrRegisterReqs : Register("p1", in)
    \/ RegisterPreProcess("p1")
    \/ RegisterLeaseGrant("p1")
    \/ RegisterTxn("p1")
    \/ \E in \in IdReqs : Unregister("p1", in)
    \/ UnregisterGetLeaseId("p1")
    \/ UnregisterLeaseRevoke("p1")
    \/ \E in \in IdReqs : Heartbeat("p1", in)
    \/ HeartbeatKeepAlive("p1")
    \/ \E in \in StatusReqs : UpdateStatus("p1", in)
    \/ \E in \in PropsReqs : UpdateInstanceProperties("p1", in)
    \/ UpdateInstanceGetLeaseId("p1")
    \/ UpdateInstancePut("p1")
    \/ \E in \in ErrFindReqs : Find("p1", Ctx("t1", "", ""), in)
    \/ \E in \in ErrGetReqs : GetInstances("p1", Ctx("t1", "", ""), in)
    \/ \E in \in ErrGetReqs : GetOneInstance("p1", Ctx("t1", "", ""), in)
    \/ ClusterHealth("p1")
    \/ Tick

SpecErr == Init /\ [][NextErr]_vars

\* A worker starts the call op, or takes the step of it that leaves pc.
Starts(p, op) == Idle(p) /\ result'.op = op /\ result'.p = p
Enters(p, op) == Idle(p) /\ procs'[p].op = op
Leaves(p, op, pc) == At(p, op, pc) /\ procs'[p].pc # pc

\* C11: a Heartbeat whose lookup finds no lease key is answered
\* InstanceNotExists with no transport error and goes no further; one whose
\* renewal reports a TTL, positive or 0, is answered SUCCESS with no
\* transport error; and a transport error goes with a Heartbeat response
\* only when the lookup or the renewal failed in the backend.
C11_HeartbeatOutcomes ==
    [][\A p \in Procs :
        /\ (Starts(p, "Heartbeat") /\ ~BackendFails)
              => /\ GetLeaseId(result'.req.svc, result'.req.iid) = NoLease
                 /\ result'.code = "InstanceNotExists"
                 /\ ~result'.err
        /\ Enters(p, "Heartbeat")
              => GetLeaseId(procs'[p].in.svc, procs'[p].in.iid) # NoLease
        /\ (Leaves(p, "Heartbeat", "KeepAlive") /\ ~BackendFails
                /\ procs[p].lease \in DOMAIN leases)
              => /\ result'.code = "SUCCESS"
                 /\ ~result'.err
                 /\ result'.ttl = IF fault = "timeout" THEN 0
                                  ELSE leases[procs[p].lease].ttl
        /\ (result'.op = "Heartbeat" /\ result'.p = p /\ result'.err)
              => BackendFails /\ result'.code = "Internal"
      ]_vars

\* A renewal reported 0 and the Heartbeat was answered SUCCESS.
C11_SoftRenewalFailureAnswered ==
    /\ result.op = "Heartbeat"
    /\ result.at = "KeepAlive"
    /\ result.code = "SUCCESS"
    /\ result.ttl = 0
    /\ ~result.err

\* C18: for Register, Unregister, Heartbeat, Find, GetInstances,
\* GetOneInstance, UpdateStatus, UpdateInstanceProperties and
\* ClusterHealth, a transport error goes with a response exactly when its
\* code is Internal or Unavailable; InvalidParams, ServiceNotExists,
\* InstanceNotExists, TagNotExists and Forbidden come with none.
C18_TransportErrorIffInternal ==
    result.op \in {"Register", "Unregister", "Heartbeat", "Find",
                   "GetInstances", "GetOneInstance", "UpdateStatus",
                   "UpdateInstanceProperties", "ClusterHealth"}
      => /\ result.err <=> result.code \in {"Internal", "Unavailable"}
         /\ result.code \in {"InvalidParams", "ServiceNotExists",
                              "InstanceNotExists", "TagNotExists",
                              "Forbidden"} => ~result.err

\* The accessibility predicate denied a GetInstances: Forbidden is in the
\* response body and no transport error goes with it.
C18_DenialInBody ==
    /\ result.op = "GetInstances"
    /\ result.code = "Forbidden"
    /\ ~result.err
    /\ fault = "backend"

\* The leases that own no key and are not held by a Register in flight.
OrphanLeases ==
    {l \in DOMAIN leases :
        /\ \A k \in DOMAIN kv : kv[k].lease # l
        /\ \A p \in Procs : ~(procs[p].op = "Register" /\ procs[p].lease = l)}

\* C19: every reservation a Register applied is closed when that Register
\* has returned, whatever the exit (quota refused, record not serialized,
\* lease not granted, transaction failed, compare failed, success); the
\* usage is reported only by the step that commits the transaction; and
\* the quota is applied neither for the registry's own instance nor by a
\* Register that the endpoints pre-check answers.
C19_QuotaReleasedOnEveryExit ==
    [][/\ quota'.applied = quota'.open + quota'.closed
       /\ quota'.open =
              Cardinality({p \in Procs : procs'[p].reporter = "open"})
       /\ \A p \in Procs :
            /\ (result'.op = "Register" /\ result'.p = p)
                  => procs'[p].reporter = "nil"
            /\ Starts(p, "Register") => quota' = quota
            /\ (procs[p].op = "Register" /\ procs[p].in.isSC
                    /\ procs'[p] # procs[p]) => quota' = quota
       /\ quota'.applied # quota.applied
              => \E p \in Procs : /\ Leaves(p, "Register", "LeaseGrant")
                                  /\ ~procs[p].in.isSC
                                  /\ quota'.applied = quota.applied + 1
       /\ quota'.used # quota.used
              => \E p \in Procs :
                    /\ Leaves(p, "Register", "Txn")
                    /\ result'.code = "SUCCESS"
                    /\ GenerateInstanceKey(procs[p].rec[1].serviceId,
                                           procs[p].rec[1].instanceId)
                          \in DOMAIN kv'
                    /\ quota'.used = quota.used + 1
      ]_vars

\* The second Register that applied the quota has failed in its
\* transaction: both reservations are closed and no usage is reported.
C19_ReleasedAfterFailures ==
    /\ result.op = "Register"
    /\ result.at = "Txn"
    /\ result.code = "Unavailable"
    /\ quota.applied = 2
    /\ quota.closed = 2
    /\ quota.used = 0

\* C20: when the transaction of a Register does not succeed and Register
\* returns ServiceNotExists, the lease granted for it has been revoked: no
\* live lease is left that owns no key.
C20_FailedRegisterRevokesLease ==
    (/\ result.op = "Register"
     /\ result.at = "Txn"
     /\ result.code = "ServiceNotExists") => OrphanLeases = {}

(***************************************************************************)
(* Find and its cache: one worker registers, updates and removes the       *)
(* instances of the providers while callers of two tenants find them, and  *)
(* the watcher invalidates cache entries in its own time.                  *)
(***************************************************************************)
FindServices == {"s1", "s2", "sc"}

FindRegisterReqs ==
    {Req(s, "i1", <<"a">>, "h", HC("HEARTBEAT", 1, 1), "", "", FALSE) :
        s \in FindServices}

FindIdReqs == {Req(s, "i1", <<>>, "", NoHC, "", "", FALSE) : s \in {"s1"}}

FindStatusReqs ==
    {Req(s, "i1", <<>>, "", NoHC, "DOWN", "", FALSE) : s \in {"s1"}}

\* Callers of tenant t1 and t2, with and without a target domain/project.
FindCtxs ==
    {Ctx(c[1], c[2], rev) :
        c \in {<<"t1", "">>, <<"t1", "t2">>, <<"t2", "t1">>,
               <<"t1", "default">>},
        rev \in {"", "1", "2"}}

\* A provider of the caller's application, and the shared registry service.
FindReqs ==
    {FindReq("", "dev", "app", "svc", "0+", {}),
     FindReq("", "dev", "default", "SERVICECENTER", "0+", {})}

NextFind ==
    \/ \E s \in FindServices : ServiceCreate(s)
    \/ ServiceDelete("s1")
    \/ \E in \in FindRegisterReqs : Register("p1", in)
    \/ RegisterPreProcess("p1")
    \/ RegisterLeaseGrant("p1")
    \/ RegisterTxn("p1")
    \/ \E in \in FindIdReqs : Unregister("p1", in)
    \/ UnregisterGetLeaseId("p1")
    \/ UnregisterLeaseRevoke("p1")
    \/ \E in \in FindStatusReqs : UpdateStatus("p1", in)
    \/ UpdateInstanceGetLeaseId("p1")
    \/ UpdateInstancePut("p1")
    \/ Tick
    \/ \E ctx \in FindCtxs, in \in FindReqs : Find("p1", ctx, in)
    \/ \E key \in DOMAIN cache : Invalidate(key)

SpecFind == Init /\ [][NextFind]_vars

\* The entry that served the Find that has just returned.
ServedEntry == cache[FindKey(result.ctx, result.in)]

FindSucceeded == result.op = "Find" /\ result.code = "SUCCESS"

NamesShared(in) ==
    /\ in.appId = RegistryService.appId
    /\ in.serviceName \in SharedServiceNames

\* C15: the instances a Find resolves for a provider of the shared list
\* are those of services in the registry's own environment, whatever the
\* caller's tenant and the consumer's environment; the instances it
\* resolves for any other provider are those of services of the caller's
\* own domain/project, whatever target domain/project the call carries.
C15_NonSharedStaysInOwnTenant ==
    FindSucceeded =>
        \A sid \in ServedEntry.serviceIds
                    \cup {i.serviceId : i \in ServedEntry.instances
                                              \cup result.instances} :
            IF NamesShared(result.in)
            THEN ServiceOf(sid).environment = RegistryService.environment
            ELSE ServiceOf(sid).tenant = result.ctx.tenant

\* A caller of tenant t1 whose call carries the target t2 found the
\* instance of its own provider while the provider of the same name of
\* tenant t2 has an instance too.
C15_OtherTenantNotReturned ==
    /\ FindSucceeded
    /\ ~NamesShared(result.in)
    /\ result.ctx.tenant = "t1"
    /\ result.ctx.target = "t2"
    /\ {i.serviceId : i \in result.instances} = {"s1"}
    /\ GetAllInstancesOfOneService("s2") # {}
    /\ "s2" \in services

(***************************************************************************)
(* The reads and their pre-check: consumers of the provider's application  *)
(* and of another one, with and without tags.                              *)
(***************************************************************************)
PreServices == {"c1", "c2", "s1"}

PreRegisterReqs ==
    {Req("s1", "i1", <<"a">>, "h", HC("HEARTBEAT", 1, 1), "", "", FALSE)}

PreConsumers == {"", "c1", "c2"}

PreTags == {{}, {"t"}, {"x"}}

\* Find is asked for the provider with no tag and with the tag it carries.
PreFindReqs ==
    {FindReq(c, "dev", "app", "svc", "0+", tags) :
        c \in PreConsumers, tags \in {{}, {"t"}}}

PreGetReqs ==
    {GetReq(c, "s1", "i1", tags) : c \in PreConsumers, tags \in PreTags}

NextPre ==
    \/ \E s \in PreServices : ServiceCreate(s)
    \/ \E in \in PreRegisterReqs : Register("p1", in)
    \/ RegisterPreProcess("p1")
    \/ RegisterLeaseGrant("p1")
    \/ RegisterTxn("p1")
    \/ \E in \in PreFindReqs : Find("p1", Ctx("t1", "", ""), in)
    \/ \E in \in PreGetReqs : GetInstances("p1", Ctx("t1", "", ""), in)
    \/ \E in \in PreGetReqs : GetOneInstance("p1", Ctx("t1", "", ""), in)

SpecPre == Init /\ [][NextPre]_vars

\* The providers a read is about.
ProvidersOf(r) ==
    IF r.op = "Find" THEN ProviderIds(FindProvider(r.ctx, r.in))
    ELSE {sid \in {r.in.provider} :
            ServiceExist(ParseTargetDomainProject(r.ctx), sid)}

\* What the pre-check has to answer, "" if it passes: no provider, a
\* requested tag that a provider lacks, the denial of the accessibility
\* predicate, in that order.
PreCheckAnswer(r) ==
    IF ProvidersOf(r) = {}
    THEN "ServiceNotExists"
    ELSE IF \E sid \in ProvidersOf(r) :
                ~(r.in.tags \subseteq ServiceOf(sid).tags)
    THEN "TagNotExists"
    ELSE IF \E sid \in ProvidersOf(r) : Accessible(r.in.consumer, sid) # ""
    THEN CHOOSE d \in {Accessible(r.in.consumer, sid) :
                            sid \in ProvidersOf(r)} : d # ""
    ELSE ""

\* C16: Find, GetInstances and GetOneInstance of a consumer that exists (or
\* of no consumer) answer what the pre-check answers when it does not pass
\* (ServiceNotExists, then TagNotExists, then the denial), with no instance
\* in the response and no dependency rule added, and return instances only
\* when it passes.
C16_PreCheckBeforeInstances ==
    [][(/\ result'.op \in {"Find", "GetInstances", "GetOneInstance"}
        /\ \/ result'.in.consumer = ""
           \/ ServiceExist(ParseDomainProject(result'.ctx),
                           result'.in.consumer)
        /\ PreCheckAnswer(result') # "")
          => /\ result'.code = PreCheckAnswer(result')
             /\ result'.instances = {}
             /\ deps' = deps
      ]_vars

(***************************************************************************)
(* BatchFind: one worker registers an instance, another call finds         *)
(* providers in batches while the backend may fail.                        *)
(***************************************************************************)
\* A provider that exists once s1 is created, and one that never does.
BatchKeys ==
    {FindServiceKey("dev", "app", name, "0+", rev) :
        name \in {"svc", "none"}, rev \in {"", "1"}}

RECURSIVE ListsOf(_, _)
ListsOf(S, n) ==
    IF n = 0 THEN {<<>>}
    ELSE ListsOf(S, n - 1)
            \cup {Append(l, e) : l \in ListsOf(S, n - 1), e \in S}

BatchFindReqs == {BatchFindReq("", l) : l \in ListsOf(BatchKeys, MaxBatch)}

NextBatch ==
    \/ \E f \in {"none", "backend"} : Inject(f)
    \/ ServiceCreate("s1")
    \/ \E in \in PreRegisterReqs : Register("p1", in)
    \/ RegisterPreProcess("p1")
    \/ RegisterLeaseGrant("p1")
    \/ RegisterTxn("p1")
    \/ Tick
    \/ \E in \in BatchFindReqs : BatchFind("p2", Ctx("t1", "", ""), in)
    \/ BatchFindElement("p2")
    \/ \E key \in DOMAIN cache : Invalidate(key)

SpecBatch == Init /\ [][NextBatch]_vars

\* The positions of a list that hold the index i.
Positions(list, i) == {k \in 1..Len(list) : list[k] = i}

\* How often the element with index i is placed in the buckets of r.
Placed(r, i) ==
    Cardinality({k \in 1..Len(r.updated) : r.updated[k].index = i})
        + Cardinality(Positions(r.notModified, i))
        + Cardinality({<<f, k>> \in r.failed \X (1..MaxBatch) :
                          k \in Positions(f.indexes, i)})

\* The Find calls made for r are those of the first n elements of the
\* request, in order, each with the element's revision.
CalledInOrder(r, n) ==
    /\ Len(r.calls) = n
    /\ \A k \in 1..n :
        LET key == r.in.services[k]
        IN  /\ r.calls[k].rev = key.rev
            /\ r.calls[k].in = FindReq(r.in.consumer, key.environment,
                                       key.appId, key.serviceName,
                                       key.version, {})

\* Every element is in one bucket, the one its Find response asks for, and
\* the failed elements of one code are in one entry.
Bucketed(r) ==
    /\ \A k \in 1..Len(r.in.services) :
        LET call == r.calls[k]
        IN  /\ Placed(r, k - 1) = 1
            /\ call.code # "SUCCESS"
                  => \E f \in r.failed : /\ f.code = call.code
                                         /\ Positions(f.indexes, k - 1) # {}
            /\ (call.code = "SUCCESS" /\ call.rev = call.respRev)
                  => Positions(r.notModified, k - 1) # {}
            /\ (call.code = "SUCCESS" /\ call.rev # call.respRev)
                  => \E u \in 1..Len(r.updated) :
                        /\ r.updated[u].index = k - 1
                        /\ r.updated[u].rev = call.respRev
    /\ \A f, g \in r.failed : f.code = g.code => f = g

\* C17, as stated: BatchFind calls Find once for every element, in request
\* order, with the element's revision, and every element's index is in
\* exactly one of updated, notModified and failed, as the response of its
\* Find asks; the failed elements of one code share one entry.
C17_EveryElementBucketed ==
    result.op = "BatchFind" =>
        /\ CalledInOrder(result, Len(result.in.services))
        /\ Bucketed(result)

\* C17, amended: that holds for a BatchFind that returns no transport
\* error. The first Find that returns a transport error ends the call:
\* the elements after it are not looked for, and BatchFind returns the
\* response of that Find and its error, with no bucket.
C17_BucketedUnlessFindFails ==
    result.op = "BatchFind" =>
        IF result.err
        THEN /\ Len(result.calls) \in 1..Len(result.in.services)
             /\ CalledInOrder(result, Len(result.calls))
             /\ \A k \in 1..Len(result.calls) :
                    InternalError(result.calls[k].code)
                        <=> k = Len(result.calls)
             /\ result.code = result.calls[Len(result.calls)].code
             /\ result.updated = <<>>
             /\ result.notModified = <<>>
             /\ result.failed = {}
        ELSE /\ CalledInOrder(result, Len(result.in.services))
             /\ Bucketed(result)
             /\ result.code = "SUCCESS"

\* A BatchFind of two elements whose Finds failed with the same code has
\* returned: both indexes are in one failed entry.
C17_TwoFailuresShareAnEntry ==
    /\ result.op = "BatchFind"
    /\ ~result.err
    /\ Len(result.calls) = 2
    /\ result.failed = {[code |-> "ServiceNotExists", indexes |-> <<0, 1>>]}

(***************************************************************************)
(* HeartbeatSet and its channel: batches over an instance that is          *)
(* registered and one that is not, while the context may be cancelled.     *)
(***************************************************************************)
SetElements == {<<"s1", "i1">>, <<"s1", "i2">>}
SetLists == UNION {[1..n -> SetElements] : n \in 0..MaxHb}

SetRegisterReqs ==
    {Req("s1", "i1", <<"a">>, "h", HC("HEARTBEAT", 1, 1), "", "", FALSE)}

NextSet ==
    \/ ServiceCreate("s1")
    \/ \E in \in SetRegisterReqs : Register("p1", in)
    \/ RegisterPreProcess("p1")
    \/ RegisterLeaseGrant("p1")
    \/ RegisterTxn("p1")
    \/ \E list \in SetLists : HeartbeatSet(list)
    \/ \E t \in hb.tasks : HeartbeatFuncGetLeaseId(t)
    \/ \E t \in hb.tasks : HeartbeatFuncKeepAlive(t)
    \/ HeartbeatSetRange
    \/ HeartbeatSetReturn
    \/ Cancel
    \/ Tick

SpecSet == Init /\ [][NextSet]_vars

\* The handler's goroutine is scheduled, and every heartbeat function that
\* was handed to the pool runs to its end.
SetFairness ==
    /\ WF_vars(HeartbeatSetRange)
    /\ WF_vars(HeartbeatSetReturn)
    /\ WF_vars(\E t \in hb.tasks : HeartbeatFuncGetLeaseId(t))
    /\ WF_vars(\E t \in hb.tasks : HeartbeatFuncKeepAlive(t))

SpecSetFair == SpecSet /\ SetFairness

\* K: the number of elements left after the de-duplication of lines 339-348.
K(list) == Len(NoMulti(list, {}))

\* A HeartbeatSet for a non-empty set returns in this step.
SetReturns == result'.op = "HeartbeatSet" /\ result'.set # <<>>

\* C21: the loop of HeartbeatSet closes the channel with the K-th result it
\* reads and with no other, and the handler returns only then, with exactly
\* K results read; if the handler and every heartbeat function handed to
\* the pool keep running, a HeartbeatSet for a non-empty set returns.
C21_ReadsKThenReturns ==
    /\ [][/\ (~hb.closed /\ hb'.closed)
                => /\ hb'.count = K(hb.in)
                   /\ hb.count = K(hb.in) - 1
          /\ SetReturns
                => /\ hb.closed
                   /\ hb.count = K(hb.in)
                   /\ Len(result'.instances) = K(result'.set)
                   /\ hb.instancesHbRst = <<>>
                   /\ hb'.pc = "idle"
         ]_vars
    /\ (hb.pc = "range") ~> (hb.pc = "idle" /\ result.op = "HeartbeatSet")

\* A HeartbeatSet of two elements with the same key has returned: one
\* result was read for the one element left.
C21_OneOfTwoRead ==
    /\ result.op = "HeartbeatSet"
    /\ Len(result.set) = 2
    /\ K(result.set) = 1
    /\ Len(result.instances) = 1

\* C22: when the context of the request is cancelled while heartbeat
\* functions of the set have not sent their result yet, the loop stops
\* waiting for them: the handler can return at once, and the results of
\* those functions are dropped.
C22_CancelledSetReturns ==
    (hb.pc = "range" /\ hb.cancelled /\ hb.tasks # {})
        => ENABLED HeartbeatSetReturn

\* C25: while HeartbeatSet is in its loop, the results read, those in the
\* channel and the heartbeat functions still to send add up to K, and the
\* capacity of the channel is at least K, so a function that is to send
\* finds room in the channel; the channel is closed only when K results
\* have been read and no function is left to send, and no function ever
\* sends on the closed channel.
C25_NoBlockedOrLateSend ==
    /\ ~hb.panicked
    /\ hb.closed => (hb.tasks = {} /\ hb.count = hb.noMultiCounter)
    /\ hb.pc = "idle" => hb.tasks = {}
    /\ hb.pc = "range" =>
        /\ hb.noMultiCounter = K(hb.in)
        /\ hb.cap >= hb.noMultiCounter
        /\ hb.count + Len(hb.instancesHbRst) + Cardinality(hb.tasks)
              = hb.noMultiCounter
        /\ hb.tasks # {} => Len(hb.instancesHbRst) < hb.cap

\* Both heartbeat functions of a set of two have sent their result before
\* the handler has read one.
C25_TwoResultsInChannel ==
    /\ hb.pc = "range"
    /\ hb.count = 0
    /\ Len(hb.instancesHbRst) = 2
    /\ hb.cap = 2

(***************************************************************************)
(* Dependency rules: a consumer finds a provider by its name and by its    *)
(* alias while the backend may fail.                                       *)
(***************************************************************************)
DepServices == {"c1", "s1", "sa"}

DepFindReqs ==
    {FindReq(c, "dev", "app", name, "0+", {}) :
        c \in {"", "c1"}, name \in {"svc", "svcA", "a", "none"}}

NextDep ==
    \/ \E f \in {"none", "backend"} : Inject(f)
    \/ \E s \in DepServices : ServiceCreate(s)
    \/ ServiceDelete("sa")
    \/ \E in \in DepFindReqs : Find("p1", Ctx("t1", "", ""), in)
    \/ \E key \in DOMAIN cache : Invalidate(key)

SpecDep == Init /\ [][NextDep]_vars

\* The provider set a Find was served, and the rule it is to record: the
\* consumer with the provider key that carries the name of the first
\* matched provider and the version rule of the request.
ServedIds(r, c) ==
    IF FindKey(r.ctx, r.in) \in DOMAIN c
    THEN c[FindKey(r.ctx, r.in)].serviceIds ELSE {}

CanonicalRule(r, ids) ==
    <<r.in.consumer,
      [FindProvider(r.ctx, r.in) EXCEPT
          !.serviceName = ServiceOf(CHOOSE sid \in ids : TRUE).serviceName]>>

\* C23: a Find with a consumer and a non-empty provider set whose rule
\* (consumer, provider key with the canonical name) is not recorded yet
\* records exactly that rule before it answers SUCCESS; a Find with no
\* consumer, with an empty provider set or with the rule recorded already
\* records nothing and does not call the writer; a failure of the writer is
\* answered with an internal error.
C23_RuleRecordedOnce ==
    [][result'.op = "Find" =>
        LET r       == result'
            ids     == ServedIds(r, cache')
            records == /\ r.in.consumer # ""
                       /\ ids # {}
                       /\ CanonicalRule(r, ids) \notin deps
        IN  /\ (records /\ r.code = "SUCCESS")
                    => deps' = deps \cup {CanonicalRule(r, ids)}
            /\ ~records
                    => /\ deps' = deps
                       /\ r.at \notin {"reshapeProviderKey",
                                       "AddServiceVersionRule"}
            /\ r.at = "AddServiceVersionRule"
                    => /\ r.code = "Internal"
                       /\ r.err
                       /\ deps' = deps
      ]_vars

(***************************************************************************)
(* Updates: one instance is registered, and two workers update its status  *)
(* and its properties while its lease may run out.                         *)
(***************************************************************************)
NextUpd ==
    \/ ServiceCreate("s1")
    \/ \E in \in SetRegisterReqs : Register("p1", in)
    \/ RegisterPreProcess("p1")
    \/ RegisterLeaseGrant("p1")
    \/ RegisterTxn("p1")
    \/ \E p \in Procs :
        \/ \E in \in StatusReqs : UpdateStatus(p, in)
        \/ \E in \in PropsReqs : UpdateInstanceProperties(p, in)
        \/ UpdateInstanceGetLeaseId(p)
        \/ UpdateInstancePut(p)
    \/ Tick

SpecUpd == Init /\ [][NextUpd]_vars

\* An update returns in this step.
UpdateReturns(op, code) == result'.op = op /\ result'.code = code

\* The KV after the step is the KV before it with the one field of the
\* record of the request's instance set; the record keeps its lease.
StatusWritten(in) ==
    /\ GenerateInstanceKey(in.svc, in.iid) \in DOMAIN kv
    /\ kv' = [kv EXCEPT
                ![GenerateInstanceKey(in.svc, in.iid)].val.status = in.status]

PropertiesWritten(in) ==
    /\ GenerateInstanceKey(in.svc, in.iid) \in DOMAIN kv
    /\ kv' = [kv EXCEPT
                ![GenerateInstanceKey(in.svc, in.iid)].val.properties =
                    in.props]

\* C24: a successful UpdateStatus replaces the record that is in the KV
\* right before its write by that record with the new status, and a
\* successful UpdateInstanceProperties by that record with the new
\* properties; the lease of the record, the lease key and every other key
\* stay as they are, also when the two run at once. An update answered
\* InstanceNotExists writes nothing.
C24_UpdateWritesOneField ==
    [][/\ UpdateReturns("UpdateStatus", "SUCCESS")
            => (StatusWritten(result'.req) /\ leases' = leases)
       /\ UpdateReturns("UpdateInstanceProperties", "SUCCESS")
            => (PropertiesWritten(result'.req) /\ leases' = leases)
       /\ (\/ UpdateReturns("UpdateStatus", "InstanceNotExists")
           \/ UpdateReturns("UpdateInstanceProperties", "InstanceNotExists"))
            => (kv' = kv /\ leases' = leases)
      ]_vars

(***************************************************************************)
(* Registers of one worker, one after the other, with instance ids that    *)
(* the caller supplies.                                                    *)
(***************************************************************************)
NextOver ==
    \/ ServiceCreate("s1")
    \/ \E in \in RegisterReqs : Register("p1", in)
    \/ RegisterPreProcess("p1")
    \/ RegisterLeaseGrant("p1")
    \/ RegisterTxn("p1")
    \/ Tick

SpecOver == Init /\ [][NextOver]_vars

\* The keys a lease owns.
KeysOf(l) == {k \in DOMAIN kv : kv[k].lease = l}

\* C26: a Register never moves a key that exists to another lease; and
\* when no Register is under way, the two keys of every live instance are
\* under one live lease, and every live lease owns one instance key and one
\* lease key.
C26_RegisterNeverMovesKeys ==
    /\ [][\A k \in DOMAIN kv \cap DOMAIN kv' : kv'[k].lease = kv[k].lease]_vars
    /\ []((\A p \in Procs : Idle(p)) =>
            /\ \A k \in InstanceKeys :
                /\ GenerateInstanceLeaseKey(k[2], k[3]) \in DOMAIN kv
                /\ kv[GenerateInstanceLeaseKey(k[2], k[3])].lease = kv[k].lease
                /\ kv[k].lease \in DOMAIN leases
            /\ \A l \in DOMAIN leases :
                /\ Cardinality(KeysOf(l) \cap InstanceKeys) = 1
                /\ Cardinality(KeysOf(l) \ InstanceKeys) = 1)

====
